---- MODULE Spec2Model ----
(***************************************************************************)
(* Memory-mapped file I/O (package mmap): one Mapping over one file, the   *)
(* Transactions begun on it, and the operating-system calls both backends  *)
(* (linux/amd64, windows/amd64) issue.  Every operation is one action; its *)
(* return value is recorded in `last`.                                     *)
(***************************************************************************)
EXTENDS Integers, Sequences, FiniteSets, TLC

\* ------------------------------------------------------------------ bounds
\* length of the mapping (the `length` argument of New), in bytes
MapLen == 2
\* longest buffer a caller passes to ReadAt / WriteAt
MaxBuf == 2
\* width of int64 / uintptr in the model (64 in the program)
WordBits == 4
\* os.Getpagesize() (4096 in the program)
PageSize == 2

\* two byte values tell every copy apart
Byte == {0, 1}
\* the Transaction objects of a behaviour: one, or two side by side
TxIds == {"t1"}
TwoTxIds == {"t1", "t2"}
Platforms == {"linux", "windows"}
Modes == {"ModeReadOnly", "ModeReadWrite", "ModeWriteCopy"}

\* a nil slice; a live memory or snapshot slice always has length >= 1
Nil == <<>>

TwoW == 2 ^ WordBits
MaxInt == (TwoW \div 2) - 1
\* uintptr -> int64 conversion: reinterpretation of the same bits
ToInt64(u) == IF u > MaxInt THEN u - TwoW ELSE u
\* int64 addition wraps
WrapInt64(x) == ((x + (TwoW \div 2)) % TwoW) - (TwoW \div 2)
\* the largest length makeslice accepts (maxAlloc), far below 2^63
MaxAlloc == 2 ^ (WordBits - 2)

\* offsets and lengths callers pass
Offsets == (0 - 1)..MapLen
Lengths == (0..(MapLen + 1)) \cup {MaxInt, MaxInt + 1, TwoW - 1}
Buffers == UNION {[1..k -> Byte] : k \in 0..MaxBuf}
Zeros(k) == [i \in 1..k |-> 0]

\* ------------------------------------------------------------ Go built-ins
Min(a, b) == IF a < b THEN a ELSE b
\* s[k:]
Drop(s, k) == SubSeq(s, k + 1, Len(s))
\* n of n := copy(dst, src)
CopyN(dst, src) == Min(Len(dst), Len(src))
\* dst after copy(dst, src)
CopyInto(dst, src) ==
    [i \in 1..Len(dst) |-> IF i <= CopyN(dst, src) THEN src[i] ELSE dst[i]]

VARIABLES
    platform,   \* which backend is compiled in
    mode,       \* the mode New was called with
    shared,     \* the OS mapping is shared (writes are carried to the file)
    file0,      \* the file's bytes when the mapping was made
    file,       \* the file's bytes as another reader of the file sees them
    memory,     \* Mapping.memory: the mapped bytes, Nil once closed
    writable,   \* Mapping.writable
    locked,     \* Mapping.locked
    view,       \* the OS still has the region mapped
    hMapping,   \* windows: the file-mapping handle is held
    hFile,      \* windows: the duplicated file handle is held
    finalizer,  \* runtime.SetFinalizer(m, Close) is registered
    fd,         \* the caller's file descriptor is open
    path,       \* whether the name of the file is "present" or "absent" in
                \* the file system
    region,     \* the OS mapping as New established it: the file offset and
                \* the length it passed, the remainder it re-exposes the
                \* bytes at, and whether the pages are executable
    threads,    \* the calls in flight when several goroutines call into
                \* the same object: per goroutine the call, how far it has
                \* got and its local variables; a single caller's calls run
                \* to completion and leave every goroutine idle
    txs,        \* the Transaction objects
    base,       \* history, per transaction and only while no other object
                \* has been operated on: mem, the Mapping's bytes at Begin;
                \* pat, the pattern a WriteAt covering [start, end) wrote
    last        \* the last call and what it returned

vars == <<platform, mode, shared, file0, file, memory, writable, locked, view,
          hMapping, hFile, finalizer, fd, path, region, threads, txs, base,
          last>>

\* what no method of a Mapping or of a Transaction changes when it is
\* called by a single caller
consts == <<platform, mode, shared, file0, fd, path, region, threads>>
handles == <<view, hMapping, hFile, finalizer>>

\* calls: the OS calls the operation issued, in order; the last of them is
\* the one that failed when err names an OS call
Res(op, tx, off, len, buf, n, err) ==
    [op |-> op, tx |-> tx, off |-> off, len |-> len, buf |-> buf, n |-> n,
     err |-> err, calls |-> <<>>]

\* an access to an unmapped region killed the process
Crashed == last.err = "fault"

NoBase == [mem |-> Nil, pat |-> Nil]

\* the goroutines of a behaviour with concurrent callers
Threads == {"g1", "g2"}
\* a goroutine that is in no call
\* hit: the call has read or written the mapped region, or passed it to the
\* OS to be unmapped; err: what the call returned
Idle == [pc |-> "idle", op |-> "none", off |-> 0, w |-> 0, v |-> 0,
         buf |-> Nil, k |-> 0, hit |-> FALSE, err |-> "nil"]
NoThreads == [g \in Threads |-> Idle]

\* no OS mapping has been established
NoRegion == [offset |-> 0, length |-> 0, inner |-> 0, exec |-> FALSE]

\* a Transaction that has not been created yet
NoTx == [begun |-> FALSE, offset |-> 0, highOffset |-> 0, snapshot |-> Nil]

\* --------------------------------------------------------------------- New
\* m.writable as New sets it
NewWritable(md) == md # "ModeReadOnly"

\* whether the OS mapping New establishes is shared with the file
NewShared(pf, md) ==
    IF pf = "linux"
    THEN TRUE                     \* mmapFlags stays MAP_SHARED; the
                                  \* MAP_PRIVATE is assigned to `flags`
    ELSE md # "ModeWriteCopy"     \* FILE_MAP_COPY

Init ==
    /\ platform \in Platforms
    /\ mode \in Modes
    /\ shared = NewShared(platform, mode)
    /\ file0 = Zeros(MapLen)
    /\ file = file0
    /\ memory = file0
    /\ writable = NewWritable(mode)
    /\ locked = FALSE
    /\ view = TRUE
    /\ hMapping = (platform = "windows")
    /\ hFile = (platform = "windows")
    /\ finalizer = TRUE
    /\ fd = TRUE
    /\ path = "present"
    /\ threads = NoThreads
    /\ region = [offset |-> 0, length |-> MapLen, inner |-> 0, exec |-> FALSE]
    /\ txs = [t \in TxIds |-> NoTx]
    /\ base = [t \in TxIds |-> NoBase]
    /\ last = Res("New", "m", 0, MapLen, Nil, 0, "nil")

\* the history after a call on `who` (a transaction or "m") that leaves
\* transaction `who` with the history h
NextBase(who, h) == [t \in DOMAIN base |-> IF who = t THEN h ELSE NoBase]

\* the bytes a reader of the file sees once the Mapping holds `mem`: a shared
\* mapping and the file's readers go through the same page cache, a private
\* (copy-on-write) mapping keeps its changes to itself.  The Mapping's byte i
\* is the file's byte region.offset + region.inner + i.
FileAfter(mem) ==
    IF shared /\ mem # Nil
    THEN LET start == region.offset + region.inner
         IN  [i \in 1..Len(file) |->
                 IF i > start /\ i <= start + Len(mem)
                 THEN mem[i - start] ELSE file[i]]
    ELSE file

\* ------------------------------------------------------- Mapping.ReadAt
\* MappingReadAt without the closed guard
MappingReadAtUnguarded(mem, vw, buffer, offset) ==
    IF offset < 0 \/ offset >= Len(mem)
    THEN Res("ReadAt", "m", offset, 0, buffer, 0, "InvalidOffset")
    ELSE LET src == Drop(mem, offset)
             n == CopyN(buffer, src)
         IN  Res("ReadAt", "m", offset, 0, CopyInto(buffer, src), n,
                 IF n < Len(buffer) THEN "EOF" ELSE "nil")

\* MappingReadAt copying from the start of the region whatever the offset
MappingReadAtFromStart(mem, vw, buffer, offset) ==
    IF mem = Nil
    THEN Res("ReadAt", "m", offset, 0, buffer, 0, "Closed")
    ELSE IF offset < 0 \/ offset >= Len(mem)
    THEN Res("ReadAt", "m", offset, 0, buffer, 0, "InvalidOffset")
    ELSE LET n == CopyN(buffer, mem)
         IN  Res("ReadAt", "m", offset, 0, CopyInto(buffer, mem), n,
                 IF n < Len(buffer) THEN "EOF" ELSE "nil")

\* ReadAt(buffer, offset) on a Mapping whose bytes are mem and whose region
\* is mapped iff vw
MappingReadAt(mem, vw, buffer, offset) ==
    IF mem = Nil
    THEN Res("ReadAt", "m", offset, 0, buffer, 0, "Closed")
    ELSE IF offset < 0 \/ offset >= Len(mem)
    THEN Res("ReadAt", "m", offset, 0, buffer, 0, "InvalidOffset")
    ELSE LET src == Drop(mem, offset)
             n == CopyN(buffer, src)
         IN  IF n > 0 /\ ~vw
             THEN Res("ReadAt", "m", offset, 0, buffer, 0, "fault")
             ELSE Res("ReadAt", "m", offset, 0, CopyInto(buffer, src), n,
                      IF n < Len(buffer) THEN "EOF" ELSE "nil")

ReadAt ==
    \E k \in 0..MaxBuf, offset \in Offsets :
        /\ ~Crashed
        /\ last' = MappingReadAt(memory, view, Zeros(k), offset)
        /\ base' = NextBase("m", NoBase)
        /\ UNCHANGED <<consts, file, memory, writable, locked, handles, txs>>

\* ------------------------------------------------------ Mapping.WriteAt
\* WriteAt(buffer, offset) on a Mapping whose bytes are mem, which is
\* writable iff wr and whose region is mapped iff vw: the bytes after the
\* call and what it returns
MappingWriteAtOn(mem, wr, vw, buffer, offset) ==
    IF mem = Nil
    THEN [mem |-> mem,
          res |-> Res("WriteAt", "m", offset, 0, buffer, 0, "Closed")]
    ELSE IF ~wr
    THEN [mem |-> mem,
          res |-> Res("WriteAt", "m", offset, 0, buffer, 0,
                      "IllegalOperation")]
    ELSE IF offset < 0 \/ offset >= Len(mem)
    THEN [mem |-> mem,
          res |-> Res("WriteAt", "m", offset, 0, buffer, 0, "InvalidOffset")]
    ELSE LET dst == Drop(mem, offset)
             n == CopyN(dst, buffer)
         IN  IF n > 0 /\ ~vw
             THEN [mem |-> mem,
                   res |-> Res("WriteAt", "m", offset, 0, buffer, 0, "fault")]
             ELSE [mem |-> SubSeq(mem, 1, offset) \o CopyInto(dst, buffer),
                   res |-> Res("WriteAt", "m", offset, 0, buffer, n,
                               IF n < Len(buffer) THEN "EOF" ELSE "nil")]

\* MappingWriteAt reporting a short write as a complete one
MappingWriteAtNoShort(buffer, offset) ==
    IF memory = Nil
    THEN [mem |-> memory,
          res |-> Res("WriteAt", "m", offset, 0, buffer, 0, "Closed")]
    ELSE IF ~writable
    THEN [mem |-> memory,
          res |-> Res("WriteAt", "m", offset, 0, buffer, 0,
                      "IllegalOperation")]
    ELSE IF offset < 0 \/ offset >= Len(memory)
    THEN [mem |-> memory,
          res |-> Res("WriteAt", "m", offset, 0, buffer, 0, "InvalidOffset")]
    ELSE LET dst == Drop(memory, offset)
             n == CopyN(dst, buffer)
         IN  [mem |-> SubSeq(memory, 1, offset) \o CopyInto(dst, buffer),
              res |-> Res("WriteAt", "m", offset, 0, buffer, n, "nil")]

\* MappingWriteAt with the upper bound off by one (offset > len)
MappingWriteAtOffByOne(buffer, offset) ==
    IF memory = Nil
    THEN [mem |-> memory,
          res |-> Res("WriteAt", "m", offset, 0, buffer, 0, "Closed")]
    ELSE IF ~writable
    THEN [mem |-> memory,
          res |-> Res("WriteAt", "m", offset, 0, buffer, 0,
                      "IllegalOperation")]
    ELSE IF offset < 0 \/ offset > Len(memory)
    THEN [mem |-> memory,
          res |-> Res("WriteAt", "m", offset, 0, buffer, 0, "InvalidOffset")]
    ELSE LET dst == Drop(memory, offset)
             n == CopyN(dst, buffer)
         IN  [mem |-> SubSeq(memory, 1, offset) \o CopyInto(dst, buffer),
              res |-> Res("WriteAt", "m", offset, 0, buffer, n,
                          IF n < Len(buffer) THEN "EOF" ELSE "nil")]

MappingWriteAt(buffer, offset) ==
    MappingWriteAtOn(memory, writable, view, buffer, offset)

WriteAt ==
    \E buffer \in Buffers, offset \in Offsets :
        /\ ~Crashed
        /\ memory' = MappingWriteAt(buffer, offset).mem
        /\ file' = FileAfter(memory')
        /\ last' = MappingWriteAt(buffer, offset).res
        /\ base' = NextBase("m", NoBase)
        /\ UNCHANGED <<consts, writable, locked, handles, txs>>

\* ---------------------------------------------------------------- OS calls
\* calls that take the mapped region: they fail once it is unmapped
ViewCalls == {"msync", "mlock", "munlock", "munmap", "FlushViewOfFile",
              "VirtualLock", "VirtualUnlock", "UnmapViewOfFile"}

\* Feasible for a Mapping that kept the caller's descriptor instead of a
\* duplicate of it
FeasibleCallerFd(c) ==
    IF c \in ViewCalls THEN view
    ELSE IF c = "CloseHandle(hMapping)" THEN hMapping
    ELSE hFile /\ fd

\* whether the OS can complete the call at all
Feasible(c) ==
    IF c \in ViewCalls THEN view
    ELSE IF c = "CloseHandle(hMapping)" THEN hMapping
    ELSE hFile       \* FlushFileBuffers(hFile), CloseHandle(hFile)

\* the calls 1..k of `calls` succeed and, if there is a next one, it fails
Outcome(calls, k) ==
    /\ k \in 0..Len(calls)
    /\ \A i \in 1..k : Feasible(calls[i])

Done(calls, k) == {calls[i] : i \in 1..k}
\* nil when every call succeeded, else the os.SyscallError of the failing one
CallErr(calls, k) == IF k = Len(calls) THEN "nil" ELSE calls[k + 1]
\* the calls issued: those that succeeded and the one that failed
Issued(calls, k) == SubSeq(calls, 1, Min(k + 1, Len(calls)))
\* the result of an operation that went through `calls` up to call k
ResCalls(op, tx, calls, k) ==
    [Res(op, tx, 0, 0, Nil, 0, CallErr(calls, k))
        EXCEPT !.calls = Issued(calls, k)]

LockCalls == IF platform = "linux" THEN <<"mlock">> ELSE <<"VirtualLock">>
UnlockCalls == IF platform = "linux" THEN <<"munlock">> ELSE <<"VirtualUnlock">>
SyncCalls ==
    IF platform = "linux" THEN <<"msync">>
    ELSE <<"FlushViewOfFile", "FlushFileBuffers">>
ReleaseCalls ==
    IF platform = "linux" THEN <<"munmap">>
    ELSE <<"UnmapViewOfFile", "CloseHandle(hMapping)", "CloseHandle(hFile)">>

\* ---------------------------------------------------------- Mapping.Lock
\* Lock setting m.locked before it knows whether the OS call succeeded
LockOptimistic ==
    \E k \in 0..1 :
        /\ ~Crashed
        /\ IF memory = Nil
           THEN /\ k = 0
                /\ last' = Res("Lock", "m", 0, 0, Nil, 0, "Closed")
                /\ UNCHANGED locked
           ELSE IF locked
           THEN /\ k = 0
                /\ last' = Res("Lock", "m", 0, 0, Nil, 0, "Locked")
                /\ UNCHANGED locked
           ELSE /\ Outcome(LockCalls, k)
                /\ last' = ResCalls("Lock", "m", LockCalls, k)
                /\ locked' = TRUE
        /\ base' = NextBase("m", NoBase)
        /\ UNCHANGED <<consts, file, memory, writable, handles, txs>>

Lock ==
    \E k \in 0..1 :
        /\ ~Crashed
        /\ IF memory = Nil
           THEN /\ k = 0
                /\ last' = Res("Lock", "m", 0, 0, Nil, 0, "Closed")
                /\ UNCHANGED locked
           ELSE IF locked
           THEN /\ k = 0
                /\ last' = Res("Lock", "m", 0, 0, Nil, 0, "Locked")
                /\ UNCHANGED locked
           ELSE /\ Outcome(LockCalls, k)
                /\ last' = ResCalls("Lock", "m", LockCalls, k)
                /\ locked' = (k = 1)
        /\ base' = NextBase("m", NoBase)
        /\ UNCHANGED <<consts, file, memory, writable, handles, txs>>

\* -------------------------------------------------------- Mapping.Unlock
Unlock ==
    \E k \in 0..1 :
        /\ ~Crashed
        /\ IF memory = Nil
           THEN /\ k = 0
                /\ last' = Res("Unlock", "m", 0, 0, Nil, 0, "Closed")
                /\ UNCHANGED locked
           ELSE IF ~locked
           THEN /\ k = 0
                /\ last' = Res("Unlock", "m", 0, 0, Nil, 0, "Unlocked")
                /\ UNCHANGED locked
           ELSE /\ Outcome(UnlockCalls, k)
                /\ last' = ResCalls("Unlock", "m", UnlockCalls, k)
                /\ locked' = (k # 1)
        /\ base' = NextBase("m", NoBase)
        /\ UNCHANGED <<consts, file, memory, writable, handles, txs>>

\* ---------------------------------------------------------- Mapping.Sync
Sync ==
    \E k \in 0..Len(SyncCalls) :
        /\ ~Crashed
        /\ IF memory = Nil
           THEN /\ k = 0
                /\ last' = Res("Sync", "m", 0, 0, Nil, 0, "Closed")
           ELSE IF ~writable
           THEN /\ k = 0
                /\ last' = Res("Sync", "m", 0, 0, Nil, 0, "IllegalOperation")
           ELSE /\ Outcome(SyncCalls, k)
                /\ last' = ResCalls("Sync", "m", SyncCalls, k)
        /\ base' = NextBase("m", NoBase)
        /\ UNCHANGED <<consts, file, memory, writable, locked, handles, txs>>

\* --------------------------------------------------------- Mapping.Close
\* the OS calls Close issues, in order: Sync if writable, Unlock if locked,
\* then the release of the region (and on windows of both handles)
\* CloseCalls unlocking before it synchronizes
CloseCallsUnlockFirst ==
    (IF locked THEN UnlockCalls ELSE <<>>)
        \o (IF writable THEN SyncCalls ELSE <<>>)
        \o ReleaseCalls

\* CloseCalls synchronizing whether or not the Mapping is writable
CloseCallsAlwaysSync ==
    SyncCalls
        \o (IF locked THEN UnlockCalls ELSE <<>>)
        \o ReleaseCalls

CloseCalls ==
    (IF writable THEN SyncCalls ELSE <<>>)
        \o (IF locked THEN UnlockCalls ELSE <<>>)
        \o ReleaseCalls

Close ==
    \E k \in 0..Len(CloseCalls) :
        /\ ~Crashed
        /\ IF memory = Nil
           THEN /\ k = 0
                /\ last' = Res("Close", "m", 0, 0, Nil, 0, "Closed")
                /\ UNCHANGED <<memory, writable, locked, handles>>
           ELSE LET S == Done(CloseCalls, k)
                    ok == k = Len(CloseCalls)
                IN  /\ Outcome(CloseCalls, k)
                    /\ last' = ResCalls("Close", "m", CloseCalls, k)
                    /\ view' = (view /\ S \cap {"munmap", "UnmapViewOfFile"} = {})
                    /\ hMapping' = (hMapping /\ "CloseHandle(hMapping)" \notin S)
                    /\ hFile' = (hFile /\ "CloseHandle(hFile)" \notin S)
                    /\ locked' =
                         (locked /\ S \cap {"munlock", "VirtualUnlock"} = {})
                    \* *m = Mapping{}; runtime.SetFinalizer(m, nil)
                    /\ memory' = IF ok THEN Nil ELSE memory
                    /\ writable' = (writable /\ ~ok)
                    /\ finalizer' = (finalizer /\ ~ok)
        /\ base' = NextBase("m", NoBase)
        /\ UNCHANGED <<consts, file, txs>>

\* -------------------------------------------------------- NewTransaction
\* BeginResult testing the length before the offset
BeginResultLengthFirst(offset, length) ==
    IF memory = Nil THEN [err |-> "Closed", tx |-> NoTx]
    ELSE IF ~writable THEN [err |-> "IllegalOperation", tx |-> NoTx]
    ELSE IF length = 0 THEN [err |-> "InvalidLength", tx |-> NoTx]
    ELSE IF offset < 0 \/ offset >= Len(memory)
    THEN [err |-> "InvalidOffset", tx |-> NoTx]
    ELSE LET highOffset == WrapInt64(offset + ToInt64(length))
         IN  IF highOffset > Len(memory)
             THEN [err |-> "InvalidLength", tx |-> NoTx]
             ELSE IF length > MaxAlloc
             THEN [err |-> "panic", tx |-> NoTx]
             ELSE IF ~view
             THEN [err |-> "fault", tx |-> NoTx]
             ELSE [err |-> "nil",
                   tx |-> [begun |-> TRUE, offset |-> offset,
                           highOffset |-> highOffset,
                           snapshot |->
                               CopyInto(Zeros(length),
                                        SubSeq(memory, offset + 1, highOffset))]]

\* what NewTransaction(m, offset, length) returns: the error and the
\* Transaction it builds
BeginResult(offset, length) ==
    IF memory = Nil THEN [err |-> "Closed", tx |-> NoTx]
    ELSE IF ~writable THEN [err |-> "IllegalOperation", tx |-> NoTx]
    ELSE IF offset < 0 \/ offset >= Len(memory)
    THEN [err |-> "InvalidOffset", tx |-> NoTx]
    ELSE LET highOffset == WrapInt64(offset + ToInt64(length))
         IN  IF length = 0 \/ highOffset > Len(memory)
             THEN [err |-> "InvalidLength", tx |-> NoTx]
             ELSE IF length > MaxAlloc
             \* make([]byte, length): makeslice: len out of range
             THEN [err |-> "panic", tx |-> NoTx]
             ELSE IF ~view
             THEN [err |-> "fault", tx |-> NoTx]
             ELSE [err |-> "nil",
                   tx |-> [begun |-> TRUE, offset |-> offset,
                           highOffset |-> highOffset,
                           snapshot |->
                               CopyInto(Zeros(length),
                                        SubSeq(memory, offset + 1, highOffset))]]

\* Mapping.Begin(offset, length) creating the Transaction object t
Begin ==
    \E t \in DOMAIN txs, offset \in Offsets, length \in Lengths :
        LET r == BeginResult(offset, length)
        IN  /\ ~Crashed
            /\ ~txs[t].begun
            /\ txs' = [txs EXCEPT ![t] = r.tx]
            /\ last' = Res("Begin", t, offset, length, Nil, 0, r.err)
            /\ base' = NextBase(t, [mem |-> IF r.err = "nil" THEN memory ELSE Nil,
                                      pat |-> Nil])
            /\ UNCHANGED <<consts, file, memory, writable, locked, handles>>

\* --------------------------------------------------- Transaction.ReadAt
\* Transaction.ReadAt reading the Mapping's bytes of [start, end) instead of
\* the snapshot
TransactionReadAtLive(tx, t, buf, offset) ==
    IF tx.snapshot = Nil
    THEN Res("TxReadAt", t, offset, 0, buf, 0, "TransactionClosed")
    ELSE IF offset < tx.offset \/ offset >= tx.highOffset
    THEN Res("TxReadAt", t, offset, 0, buf, 0, "InvalidOffset")
    ELSE LET src == SubSeq(memory, offset + 1, tx.highOffset)
             n == CopyN(buf, src)
         IN  Res("TxReadAt", t, offset, 0, CopyInto(buf, src), n,
                 IF n < Len(buf) THEN "EOF" ELSE "nil")

\* on a Transaction t whose fields are tx
TransactionReadAtOn(tx, t, buf, offset) ==
    IF tx.snapshot = Nil
    THEN Res("TxReadAt", t, offset, 0, buf, 0, "TransactionClosed")
    ELSE IF offset < tx.offset \/ offset >= tx.highOffset
    THEN Res("TxReadAt", t, offset, 0, buf, 0, "InvalidOffset")
    ELSE LET src == Drop(tx.snapshot, offset - tx.offset)
             n == CopyN(buf, src)
         IN  Res("TxReadAt", t, offset, 0, CopyInto(buf, src), n,
                 IF n < Len(buf) THEN "EOF" ELSE "nil")

TransactionReadAt(t, buf, offset) == TransactionReadAtOn(txs[t], t, buf, offset)

TxReadAt ==
    \E t \in DOMAIN txs, k \in 0..MaxBuf, offset \in Offsets :
        /\ ~Crashed
        /\ txs[t].begun
        /\ last' = TransactionReadAt(t, Zeros(k), offset)
        /\ base' = NextBase(t, base[t])
        /\ UNCHANGED <<consts, file, memory, writable, locked, handles, txs>>

\* -------------------------------------------------- Transaction.WriteAt
\* Transaction.WriteAt appending to the snapshot what does not fit in it
TransactionWriteAtGrows(tx, t, buf, offset) ==
    IF tx.snapshot = Nil
    THEN [snap |-> tx.snapshot,
          res |-> Res("TxWriteAt", t, offset, 0, buf, 0, "TransactionClosed")]
    ELSE IF offset < 0 \/ offset >= tx.highOffset
    THEN [snap |-> tx.snapshot,
          res |-> Res("TxWriteAt", t, offset, 0, buf, 0, "InvalidOffset")]
    ELSE IF offset - tx.offset < 0
    THEN [snap |-> tx.snapshot,
          res |-> Res("TxWriteAt", t, offset, 0, buf, 0, "panic")]
    ELSE LET k == offset - tx.offset
             dst == Drop(tx.snapshot, k)
         IN  [snap |-> SubSeq(tx.snapshot, 1, k) \o CopyInto(dst, buf)
                           \o Drop(buf, Min(Len(dst), Len(buf))),
              res |-> Res("TxWriteAt", t, offset, 0, buf, Len(buf), "nil")]

\* on a Transaction t whose fields are tx
TransactionWriteAtOn(tx, t, buf, offset) ==
    IF tx.snapshot = Nil
    THEN [snap |-> tx.snapshot,
          res |-> Res("TxWriteAt", t, offset, 0, buf, 0,
                      "TransactionClosed")]
    ELSE IF offset < 0 \/ offset >= tx.highOffset
    THEN [snap |-> tx.snapshot,
          res |-> Res("TxWriteAt", t, offset, 0, buf, 0, "InvalidOffset")]
    ELSE IF offset - tx.offset < 0
    \* tx.snapshot[offset-tx.offset:]: slice bounds out of range
    THEN [snap |-> tx.snapshot,
          res |-> Res("TxWriteAt", t, offset, 0, buf, 0, "panic")]
    ELSE LET k == offset - tx.offset
             dst == Drop(tx.snapshot, k)
             n == CopyN(dst, buf)
         IN  [snap |-> SubSeq(tx.snapshot, 1, k) \o CopyInto(dst, buf),
              res |-> Res("TxWriteAt", t, offset, 0, buf, n,
                          IF n < Len(buf) THEN "EOF" ELSE "nil")]

TransactionWriteAt(t, buf, offset) ==
    TransactionWriteAtOn(txs[t], t, buf, offset)

\* the call wrote its whole buffer over exactly [start, end)
Covers(t, res) ==
    /\ res.err = "nil"
    /\ res.off = txs[t].offset
    /\ res.n = txs[t].highOffset - txs[t].offset

\* TxWriteAt writing through to the Mapping as well as to the snapshot
TxWriteAtThrough ==
    \E t \in DOMAIN txs, buf \in Buffers, offset \in Offsets :
        LET r == TransactionWriteAt(t, buf, offset)
        IN  /\ ~Crashed
            /\ txs[t].begun
            /\ txs' = [txs EXCEPT ![t].snapshot = r.snap]
            /\ memory' = IF r.res.n > 0 /\ memory # Nil
                          THEN MappingWriteAt(buf, offset).mem ELSE memory
            /\ last' = r.res
            /\ base' = NextBase(t, [mem |-> base[t].mem,
                                      pat |-> IF Covers(t, r.res)
                                              THEN buf ELSE Nil])
            /\ UNCHANGED <<consts, file, writable, locked, handles>>

TxWriteAt ==
    \E t \in DOMAIN txs, buf \in Buffers, offset \in Offsets :
        LET r == TransactionWriteAt(t, buf, offset)
        IN  /\ ~Crashed
            /\ txs[t].begun
            /\ txs' = [txs EXCEPT ![t].snapshot = r.snap]
            /\ last' = r.res
            /\ base' = NextBase(t, [mem |-> base[t].mem,
                                      pat |-> IF Covers(t, r.res)
                                              THEN buf ELSE Nil])
            /\ UNCHANGED <<consts, file, memory, writable, locked, handles>>

\* --------------------------------------------------- Transaction.Commit
\* CommitResult copying the snapshot to the start of the Mapping
\* (zero-relative) instead of to [start, end)
CommitResultZeroRelative(t) ==
    LET tx == txs[t]
    IN  IF tx.snapshot = Nil
        THEN [err |-> "TransactionClosed", mem |-> memory, snap |-> tx.snapshot]
        ELSE IF memory = Nil
        THEN [err |-> "Closed", mem |-> memory, snap |-> tx.snapshot]
        ELSE IF ~view
        THEN [err |-> "fault", mem |-> memory, snap |-> tx.snapshot]
        ELSE [err |-> "nil",
              mem |-> CopyInto(memory, tx.snapshot),
              snap |-> Nil]

\* CommitResult merging the snapshot into the Mapping: it copies the bytes
\* of the snapshot that are not zero and keeps the Mapping's elsewhere
CommitResultMerge(t) ==
    LET tx == txs[t]
    IN  IF tx.snapshot = Nil
        THEN [err |-> "TransactionClosed", mem |-> memory, snap |-> tx.snapshot]
        ELSE IF memory = Nil
        THEN [err |-> "Closed", mem |-> memory, snap |-> tx.snapshot]
        ELSE IF ~view
        THEN [err |-> "fault", mem |-> memory, snap |-> tx.snapshot]
        ELSE [err |-> "nil",
              mem |-> [i \in 1..Len(memory) |->
                          IF i > tx.offset /\ i <= tx.highOffset
                             /\ tx.snapshot[i - tx.offset] # 0
                          THEN tx.snapshot[i - tx.offset] ELSE memory[i]],
              snap |-> Nil]

\* CommitResult closing the Transaction when the parent Mapping is closed
CommitResultClosesOnClosed(t) ==
    LET tx == txs[t]
    IN  IF tx.snapshot = Nil
        THEN [err |-> "TransactionClosed", mem |-> memory, snap |-> tx.snapshot]
        ELSE IF memory = Nil
        THEN [err |-> "Closed", mem |-> memory, snap |-> Nil]
        ELSE IF ~view
        THEN [err |-> "fault", mem |-> memory, snap |-> tx.snapshot]
        ELSE LET dst == SubSeq(memory, tx.offset + 1, tx.highOffset)
                 n == CopyN(dst, tx.snapshot)
                 mem == SubSeq(memory, 1, tx.offset)
                            \o CopyInto(dst, tx.snapshot)
                            \o Drop(memory, tx.highOffset)
             IN  IF n < Len(tx.snapshot)
                 THEN [err |-> "PartialCommit", mem |-> mem,
                       snap |-> tx.snapshot]
                 ELSE [err |-> "nil", mem |-> mem, snap |-> Nil]

\* the error Commit returns, the Mapping bytes and the snapshot after it
CommitResult(t) ==
    LET tx == txs[t]
    IN  IF tx.snapshot = Nil
        THEN [err |-> "TransactionClosed", mem |-> memory, snap |-> tx.snapshot]
        ELSE IF memory = Nil
        THEN [err |-> "Closed", mem |-> memory, snap |-> tx.snapshot]
        ELSE IF ~view
        THEN [err |-> "fault", mem |-> memory, snap |-> tx.snapshot]
        ELSE LET dst == SubSeq(memory, tx.offset + 1, tx.highOffset)
                 n == CopyN(dst, tx.snapshot)
                 mem == SubSeq(memory, 1, tx.offset)
                            \o CopyInto(dst, tx.snapshot)
                            \o Drop(memory, tx.highOffset)
             IN  IF n < Len(tx.snapshot)
                 THEN [err |-> "PartialCommit", mem |-> mem,
                       snap |-> tx.snapshot]
                 ELSE [err |-> "nil", mem |-> mem, snap |-> Nil]

Commit ==
    \E t \in DOMAIN txs :
        LET r == CommitResult(t)
        IN  /\ ~Crashed
            /\ txs[t].begun
            /\ memory' = r.mem
            /\ txs' = [txs EXCEPT ![t].snapshot = r.snap]
            /\ file' = FileAfter(memory')
            /\ last' = Res("Commit", t, 0, 0, Nil, 0, r.err)
            /\ base' = NextBase(t, base[t])
            /\ UNCHANGED <<consts, writable, locked, handles>>

\* ---------------------------------------------------- Transaction.Flush
\* Flush synchronizing first and committing only if that succeeded
FlushSyncFirst ==
    \E t \in DOMAIN txs, k \in 0..Len(SyncCalls) :
        LET r == CommitResult(t)
            synced == k = Len(SyncCalls)
        IN  /\ ~Crashed
            /\ txs[t].begun
            /\ memory' = IF synced THEN r.mem ELSE memory
            /\ txs' = [txs EXCEPT ![t].snapshot =
                                     IF synced THEN r.snap ELSE @]
            /\ file' = FileAfter(memory')
            /\ IF r.err # "nil"
               THEN /\ k = 0
                    /\ last' = Res("Flush", t, 0, 0, Nil, 0, r.err)
               ELSE IF ~writable
               THEN /\ k = 0
                    /\ last' = Res("Flush", t, 0, 0, Nil, 0,
                                   "IllegalOperation")
               ELSE /\ Outcome(SyncCalls, k)
                    /\ last' = ResCalls("Flush", t, SyncCalls, k)
            /\ base' = NextBase(t, NoBase)
            /\ UNCHANGED <<consts, writable, locked, handles>>

\* Commit, then Sync on the parent Mapping
Flush ==
    \E t \in DOMAIN txs, k \in 0..Len(SyncCalls) :
        LET r == CommitResult(t)
        IN  /\ ~Crashed
            /\ txs[t].begun
            /\ memory' = r.mem
            /\ txs' = [txs EXCEPT ![t].snapshot = r.snap]
            /\ file' = FileAfter(memory')
            /\ IF r.err # "nil"
               THEN /\ k = 0
                    /\ last' = Res("Flush", t, 0, 0, Nil, 0, r.err)
               ELSE IF ~writable
               THEN /\ k = 0
                    /\ last' = Res("Flush", t, 0, 0, Nil, 0,
                                   "IllegalOperation")
               ELSE /\ Outcome(SyncCalls, k)
                    /\ last' = ResCalls("Flush", t, SyncCalls, k)
            /\ base' = NextBase(t, NoBase)
            /\ UNCHANGED <<consts, writable, locked, handles>>

\* ------------------------------------------------- Transaction.Rollback
\* RollbackResult without the closed guard
RollbackResultUnguarded(t) == [err |-> "nil", snap |-> Nil]

RollbackResult(t) ==
    IF txs[t].snapshot = Nil
    THEN [err |-> "TransactionClosed", snap |-> txs[t].snapshot]
    ELSE [err |-> "nil", snap |-> Nil]

\* Rollback copying the snapshot into the Mapping before discarding it
RollbackCommits ==
    \E t \in DOMAIN txs :
        LET r == RollbackResult(t)
        IN  /\ ~Crashed
            /\ txs[t].begun
            /\ txs' = [txs EXCEPT ![t].snapshot = r.snap]
            /\ memory' = CommitResult(t).mem
            /\ last' = Res("Rollback", t, 0, 0, Nil, 0, r.err)
            /\ base' = NextBase(t, base[t])
            /\ UNCHANGED <<consts, file, writable, locked, handles>>

Rollback ==
    \E t \in DOMAIN txs :
        LET r == RollbackResult(t)
        IN  /\ ~Crashed
            /\ txs[t].begun
            /\ txs' = [txs EXCEPT ![t].snapshot = r.snap]
            /\ last' = Res("Rollback", t, 0, 0, Nil, 0, r.err)
            /\ base' = NextBase(t, base[t])
            /\ UNCHANGED <<consts, file, memory, writable, locked, handles>>

\* ------------------------------------------- the Transaction's finalizer
\* the finalizer, had NewTransaction registered Commit instead of Rollback
FinalizeCommits ==
    \E t \in DOMAIN txs :
        LET r == CommitResult(t)
        IN  /\ ~Crashed
            /\ txs[t].begun
            /\ txs' = [txs EXCEPT ![t] = NoTx]
            /\ memory' = r.mem
            /\ last' = Res("Finalize", t, txs[t].offset, 0, txs[t].snapshot, 0,
                           r.err)
            /\ base' = NextBase(t, NoBase)
            /\ UNCHANGED <<consts, file, writable, locked, handles>>

\* The caller has dropped Transaction t and the runtime runs the finalizer
\* NewTransaction registered, (*Transaction).Rollback, whose result it
\* ignores, and then frees the object.  Neither Commit nor Rollback clears
\* the finalizer, so it also runs for a Transaction that is already closed.
\* The result records the snapshot the object held.
Finalize ==
    \E t \in DOMAIN txs :
        LET r == RollbackResult(t)
        IN  /\ ~Crashed
            /\ txs[t].begun
            /\ txs' = [txs EXCEPT ![t] = NoTx]
            /\ last' = Res("Finalize", t, txs[t].offset, 0, txs[t].snapshot, 0,
                           r.err)
            /\ base' = NextBase(t, NoBase)
            /\ UNCHANGED <<consts, file, memory, writable, locked, handles>>

\* --------------------------------------------------------------------- New
\* the file New maps: every byte tells its position
FileLen == PageSize * PageSize + MapLen
FileBytes == [i \in 1..FileLen |-> i - 1]

\* the arguments callers pass to New; the region asked for lies in the file
NewOffsets == (0 - 1)..(PageSize * PageSize)
NewLengths == (1..MapLen) \cup {MaxInt + 1, TwoW - 1}
\* Mode is an int: the three modes and a value on either side of them
AllModes == Modes \cup {"Mode(-1)", "Mode(3)"}
ModeValue(md) ==
    CASE md = "Mode(-1)" -> 0 - 1
      [] md = "ModeReadOnly" -> 0
      [] md = "ModeReadWrite" -> 1
      [] md = "ModeWriteCopy" -> 2
      [] md = "Mode(3)" -> 3
\* Flag is a bit set
FlagSets == {{}, {"FlagExecutable"}}

\* the validation New starts with, without the check of the mode
NewCheckNoMode(offset, length, md) ==
    IF offset < 0 THEN "InvalidOffset"
    ELSE IF length > MaxInt THEN "InvalidLength"
    ELSE "nil"

\* the validation New starts with, before any OS call
NewCheck(offset, length, md) ==
    IF offset < 0 THEN "InvalidOffset"
    ELSE IF length > MaxInt THEN "InvalidLength"
    ELSE IF ModeValue(md) < 0 \/ ModeValue(md) > 2 THEN "InvalidMode"
    ELSE "nil"

\* flags&FlagExecutable != 0 as each backend evaluates it: linux has by then
\* overwritten flags with MAP_PRIVATE (0x2) for ModeWriteCopy, and
\* FlagExecutable is bit 0
NewExecutable(pf, md, flags) ==
    IF pf = "linux" /\ md = "ModeWriteCopy"
    THEN FALSE
    ELSE "FlagExecutable" \in flags

\* outerOffset, the file offset New passes to the OS
OuterOffset(offset) == offset \div PageSize
\* innerOffset
InnerOffset(offset) == offset % PageSize

NewCalls ==
    IF platform = "linux" THEN <<"mmap">>
    ELSE <<"GetCurrentProcess", "DuplicateHandle", "CreateFileMapping",
           "MapViewOfFile">>

\* whether the OS can complete a call of New: the descriptor must be open to
\* be mapped or duplicated, and the OS maps at multiples of the page size
\* only, and never zero bytes
NewFeasible(c, offset, length) ==
    CASE c = "mmap" ->
            /\ fd
            /\ OuterOffset(offset) % PageSize = 0
            /\ InnerOffset(offset) + length > 0
      [] c = "DuplicateHandle" -> fd
      [] c = "MapViewOfFile" -> OuterOffset(offset) % PageSize = 0
      [] OTHER -> TRUE

\* New(fd, offset, length, mode, flags), once per behaviour
New ==
    \E offset \in NewOffsets, length \in NewLengths, md \in AllModes,
       flags \in FlagSets, k \in 0..Len(NewCalls) :
        LET check == NewCheck(offset, length, md)
            ok == check = "nil" /\ k = Len(NewCalls)
            start == OuterOffset(offset) + InnerOffset(offset)
            \* the result also records the flags the caller passed
            res == [flags |-> flags] @@
                   Res("New", "m", offset, length, Nil, 0,
                       IF check # "nil" THEN check ELSE CallErr(NewCalls, k))
        IN  /\ last.op = "none"
            /\ IF check # "nil" THEN k = 0
               ELSE \A i \in 1..k : NewFeasible(NewCalls[i], offset, length)
            /\ last' = IF check # "nil" THEN res
                       ELSE [res EXCEPT !.calls = Issued(NewCalls, k)]
            /\ mode' = md
            \* what the OS calls that succeeded acquired, kept or not
            /\ hFile' = (check = "nil" /\ platform = "windows" /\ k >= 2)
            /\ hMapping' = (check = "nil" /\ platform = "windows" /\ k >= 3)
            /\ view' = ok
            /\ finalizer' = ok
            /\ writable' = (ok /\ NewWritable(md))
            /\ shared' = (ok /\ NewShared(platform, md))
            /\ memory' = IF ok THEN SubSeq(file, start + 1, start + length)
                          ELSE Nil
            /\ region' = IF ok
                          THEN [offset |-> OuterOffset(offset),
                                length |-> InnerOffset(offset) + length,
                                inner |-> InnerOffset(offset),
                                exec |-> NewExecutable(platform, md, flags)]
                          ELSE NoRegion
            /\ base' = NextBase("m", NoBase)
            /\ UNCHANGED <<platform, file0, file, fd, path, threads, locked,
                           txs>>

\* the caller closes the descriptor it passed to New
CloseFd ==
    /\ ~Crashed
    /\ fd
    /\ fd' = FALSE
    /\ last' = Res("CloseFd", "fd", 0, 0, Nil, 0, "nil")
    /\ base' = NextBase("m", NoBase)
    /\ UNCHANGED <<platform, mode, shared, file0, path, region, threads,
                   file, memory, writable, locked, handles, txs>>

\* ----------------------------------------------------------------- Segment
\* length of the store under a Segment, in bytes
SegLen == 9
\* longest operand list of a Get, Set, Inc or Dec
MaxOps == 2

\* values a byte takes in the model (256 in the program)
ByteBase == 2
\* len(buf) of uint8, uint16, uint32, uint64
Widths == {1, 2, 4, 8}
\* values of a type of w bytes: the least two, the top bit, the greatest
SegValues(w) == {0, 1, ByteBase ^ (w - 1), (ByteBase ^ w) - 1}
\* an operand: its width and its value (for Get, the value the slot holds
\* before the call); width 0 stands for a type that is none of the four
Unsupported == [w |-> 0, v |-> 0]
Operands ==
    UNION {{[w |-> w, v |-> v] : v \in SegValues(w)} : w \in Widths}
        \cup {Unsupported}
\* every value of every width
AllOperands ==
    UNION {{[w |-> w, v |-> v] : v \in 0..((ByteBase ^ w) - 1)} : w \in Widths}
\* the operand lists callers pass: every single operand, and the lists of up
\* to MaxOps operands of the values above
OperandLists ==
    {<<opnd>> : opnd \in AllOperands}
        \cup UNION {[1..k -> Operands] : k \in 0..MaxOps}
SegOffsets == (0 - 1)..SegLen
\* what the store holds when the Segment is made
SegStores == {Zeros(SegLen), [i \in 1..SegLen |-> IF i % 3 = 0 THEN 0 ELSE 1]}

\* binary.BigEndian.PutUintN with the bytes in the opposite order
PutUintLittleEndian(v, w) ==
    [i \in 1..w |-> (v \div (ByteBase ^ (i - 1))) % ByteBase]

\* binary.BigEndian.PutUintN(buf, v), len(buf) = w
PutUint(v, w) == [i \in 1..w |-> (v \div (ByteBase ^ (w - i))) % ByteBase]

\* binary.BigEndian.UintN(buf)
RECURSIVE Uint(_)
Uint(buf) ==
    IF buf = <<>> THEN 0
    ELSE Uint(SubSeq(buf, 1, Len(buf) - 1)) * ByteBase + buf[Len(buf)]

\* Segment.read on a store holding mem: the error and the bytes read
SegRead(mem, w, offset) ==
    LET r == MappingReadAt(mem, view, Zeros(w), offset)
    IN  [err |-> IF r.err # "nil" THEN r.err
                 ELSE IF r.n < w THEN "PartialRead" ELSE "nil",
         n |-> r.n, buf |-> r.buf]

\* Segment.write on a store holding mem: the error and the store after it
SegWrite(mem, buf, offset) ==
    LET r == MappingWriteAtOn(mem, writable, view, buf, offset)
    IN  [err |-> IF r.res.err # "nil" THEN r.res.err
                 ELSE IF r.res.n < 1 THEN "PartialWrite" ELSE "nil",
         n |-> r.res.n, mem |-> r.mem]

\* Segment.next moving the cursor by one byte whatever the width
SegNextByOne(buf, offset) == offset + 1

\* Segment.next: *offset += int64(len(buf))
SegNext(buf, offset) == offset + Len(buf)

\* SegStep with Inc and Dec saturating at the greatest and the least value of
\* the width instead of wrapping
SegStepSaturating(kind, mem, offset, opnd) ==
    LET w == opnd.w
        m == ByteBase ^ w
        rd == SegRead(mem, w, offset)
        new == IF kind = "Set" THEN opnd.v
               ELSE IF kind = "Inc" THEN Min(Uint(rd.buf) + opnd.v, m - 1)
               ELSE 0 - Min(opnd.v - Uint(rd.buf), 0)
        wr == SegWrite(mem, PutUint(new, w), offset)
    IN  IF w = 0
        THEN [err |-> "UnsupportedType", mem |-> mem, n |-> 0, val |-> opnd.v]
        ELSE IF kind # "Set" /\ rd.err # "nil"
        THEN [err |-> rd.err, mem |-> mem, n |-> rd.n, val |-> opnd.v]
        ELSE IF kind = "Get"
        THEN [err |-> "nil", mem |-> mem, n |-> rd.n, val |-> Uint(rd.buf)]
        ELSE [err |-> wr.err, mem |-> wr.mem, n |-> wr.n, val |-> opnd.v]

\* SegStep passing over an operand of unsupported type instead of failing
SegStepSkipsUnsupported(kind, mem, offset, opnd) ==
    LET w == opnd.w
        m == ByteBase ^ w
        rd == SegRead(mem, w, offset)
        new == IF kind = "Set" THEN opnd.v
               ELSE IF kind = "Inc" THEN (Uint(rd.buf) + opnd.v) % m
               ELSE (Uint(rd.buf) - opnd.v) % m
        wr == SegWrite(mem, PutUint(new, w), offset)
    IN  IF w = 0
        THEN [err |-> "nil", mem |-> mem, n |-> 0, val |-> opnd.v]
        ELSE IF kind # "Set" /\ rd.err # "nil"
        THEN [err |-> rd.err, mem |-> mem, n |-> rd.n, val |-> opnd.v]
        ELSE IF kind = "Get"
        THEN [err |-> "nil", mem |-> mem, n |-> rd.n, val |-> Uint(rd.buf)]
        ELSE [err |-> wr.err, mem |-> wr.mem, n |-> wr.n, val |-> opnd.v]

\* one turn of the loop of Get, Set, Inc or Dec, for one operand at the
\* cursor `offset`: the error, the store after it, the bytes the failing
\* transfer moved and the value the operand's slot holds afterwards
SegStep(kind, mem, offset, opnd) ==
    LET w == opnd.w
        m == ByteBase ^ w
        rd == SegRead(mem, w, offset)
        new == IF kind = "Set" THEN opnd.v
               ELSE IF kind = "Inc" THEN (Uint(rd.buf) + opnd.v) % m
               ELSE (Uint(rd.buf) - opnd.v) % m
        wr == SegWrite(mem, PutUint(new, w), offset)
    IN  IF w = 0
        THEN [err |-> "UnsupportedType", mem |-> mem, n |-> 0, val |-> opnd.v]
        ELSE IF kind # "Set" /\ rd.err # "nil"
        THEN [err |-> rd.err, mem |-> mem, n |-> rd.n, val |-> opnd.v]
        ELSE IF kind = "Get"
        THEN [err |-> "nil", mem |-> mem, n |-> rd.n, val |-> Uint(rd.buf)]
        ELSE [err |-> wr.err, mem |-> wr.mem, n |-> wr.n, val |-> opnd.v]

\* SegRun undoing the operands already written when a later one fails
RECURSIVE SegRunAllOrNothing(_, _, _, _, _)
SegRunAllOrNothing(kind, mem, offset, ops, i) ==
    IF i > Len(ops)
    THEN [err |-> "nil", mem |-> mem, out |-> <<>>,
          index |-> Len(ops), at |-> offset, n |-> 0]
    ELSE LET s == SegStep(kind, mem, offset, ops[i])
         IN  IF s.err # "nil"
             THEN [err |-> s.err, mem |-> s.mem,
                   out |-> [j \in 1..(Len(ops) - i + 1) |-> ops[i + j - 1].v],
                   index |-> i - 1, at |-> offset, n |-> s.n]
             ELSE LET rest == SegRunAllOrNothing(kind, s.mem,
                                     SegNext(Zeros(ops[i].w), offset),
                                     ops, i + 1)
                  IN  [rest EXCEPT !.out = <<s.val>> \o rest.out,
                                   !.mem = IF rest.err # "nil" THEN mem ELSE @]

\* the loop of Get, Set, Inc or Dec from operand i on: the error returned,
\* the store afterwards, the values of the slots i.., and where the call
\* stopped (index of the operand, cursor, bytes moved by the last transfer)
RECURSIVE SegRun(_, _, _, _, _)
SegRun(kind, mem, offset, ops, i) ==
    IF i > Len(ops)
    THEN [err |-> "nil", mem |-> mem, out |-> <<>>,
          index |-> Len(ops), at |-> offset, n |-> 0]
    ELSE LET s == SegStep(kind, mem, offset, ops[i])
         IN  IF s.err # "nil"
             THEN [err |-> s.err, mem |-> s.mem,
                   out |-> [j \in 1..(Len(ops) - i + 1) |-> ops[i + j - 1].v],
                   index |-> i - 1, at |-> offset, n |-> s.n]
             ELSE LET rest == SegRun(kind, s.mem,
                                     SegNext(Zeros(ops[i].w), offset),
                                     ops, i + 1)
                  IN  [rest EXCEPT !.out = <<s.val>> \o rest.out]

\* the result of a Segment call: the common fields, the operands, the values
\* of the slots after it and where it stopped
SegRes(kind, offset, ops, r) ==
    [op |-> kind, tx |-> "seg", off |-> offset, len |-> 0, buf |-> Nil,
     n |-> r.n, err |-> r.err, calls |-> <<>>,
     ops |-> ops, out |-> r.out, index |-> r.index, at |-> r.at]

\* one call of Get, Set, Inc or Dec on the Segment over the Mapping, r being
\* what its loop returns; each behaviour makes one call
SegCall(kind, offset, ops, r) ==
    /\ memory' = r.mem
    /\ file' = FileAfter(memory')
    /\ last' = SegRes(kind, offset, ops, r)
    /\ base' = NextBase("m", NoBase)
    /\ UNCHANGED <<consts, writable, locked, handles, txs>>

Get ==
    /\ last.op = "NewSegment"
    /\ \E offset \in SegOffsets, ops \in OperandLists :
        \E r \in {SegRun("Get", memory, offset, ops, 1)} :
            SegCall("Get", offset, ops, r)

Set ==
    /\ last.op = "NewSegment"
    /\ \E offset \in SegOffsets, ops \in OperandLists :
        \E r \in {SegRun("Set", memory, offset, ops, 1)} :
            SegCall("Set", offset, ops, r)

Inc ==
    /\ last.op = "NewSegment"
    /\ \E offset \in SegOffsets, ops \in OperandLists :
        \E r \in {SegRun("Inc", memory, offset, ops, 1)} :
            SegCall("Inc", offset, ops, r)

Dec ==
    /\ last.op = "NewSegment"
    /\ \E offset \in SegOffsets, ops \in OperandLists :
        \E r \in {SegRun("Dec", memory, offset, ops, 1)} :
            SegCall("Dec", offset, ops, r)

\* ----------------------------------------------------------------- NewFile
\* the sizes callers ask for
FileSizes == 1..MapLen
\* the bytes of a file that is there before the call
OldFile == [i \in 1..MapLen |-> 1]
\* what the initializer returns
InitErrors == {"nil", "InitError"}

\* the file's bytes after f.Truncate(size)
Truncated(bytes, size) ==
    [i \in 1..size |-> IF i <= Len(bytes) THEN bytes[i] ELSE 0]

\* created, were it set whenever the file could be opened
NewFileCreatedAlways(pth) == TRUE

\* created: os.Stat(name) fails with an error that os.IsNotExist
NewFileCreated(pth) == pth = "absent"

\* the calls NewFile makes up to the Mapping, in order
FileCalls == <<"Stat", "OpenFile", "Truncate">> \o NewCalls
\* the OS calls of m.Close() on the Mapping NewFile made, which is writable
\* and not locked
CleanupCalls == SyncCalls \o ReleaseCalls
\* what the initializer does to the segment before it returns: it sets the
\* first byte
InitWrites(mem) == [mem EXCEPT ![1] = 1]

\* NewFile(name, perm, size, init), once per behaviour.  k calls of FileCalls
\* succeed (Stat never stops the call); when the initializer fails, kc calls
\* of m.Close() succeed and rm tells whether the OS carries out the removal.
NewFile ==
    /\ last.op = "none"
    /\ \E size \in FileSizes, init \in BOOLEAN, initErr \in InitErrors,
          k \in 1..Len(FileCalls), kc \in 0..Len(CleanupCalls),
          rm \in BOOLEAN :
        LET created == NewFileCreated(path)
            opened == k >= 2
            sized == k >= 3
            mapped == k = Len(FileCalls)
            content == Truncated(file, size)
            ran == mapped /\ created /\ init
            failed == ran /\ initErr # "nil"
            mem == IF ran THEN InitWrites(content) ELSE content
            S == Done(CleanupCalls, kc)
            closed == kc = Len(CleanupCalls)
            \* windows refuses to remove a file that is still open or mapped
            removed == failed /\ rm /\ (platform = "linux" \/ closed)
            kept == mapped /\ ~failed
            leaked == failed /\ ~closed
        IN  /\ ~failed => (kc = 0 /\ ~rm)
            /\ ~ran => initErr = "nil"
            /\ last' =
                 [op |-> "NewFile", tx |-> "seg", off |-> 0, len |-> size,
                  buf |-> Nil, n |-> 0,
                  err |-> IF ~mapped THEN FileCalls[k + 1]
                          ELSE IF failed THEN initErr ELSE "nil",
                  calls |-> Issued(FileCalls, k)
                              \o (IF failed
                                  THEN Issued(CleanupCalls, kc) \o <<"Remove">>
                                  ELSE <<>>),
                  init |-> init, ran |-> ran, seg |-> kept,
                  ignored |-> IF ~failed THEN {}
                              ELSE (IF closed THEN {}
                                    ELSE {CleanupCalls[kc + 1]})
                                   \cup (IF removed THEN {} ELSE {"Remove"})]
            /\ path' = IF removed THEN "absent"
                        ELSE IF opened THEN "present" ELSE path
            /\ file' = IF removed THEN Nil
                        ELSE IF mapped THEN mem
                        ELSE IF sized THEN content ELSE file
            /\ mode' = IF mapped THEN "ModeReadWrite" ELSE mode
            /\ hFile' = /\ platform = "windows"
                         /\ k >= 5
                         /\ ~(failed /\ "CloseHandle(hFile)" \in S)
            /\ hMapping' = /\ platform = "windows"
                            /\ k >= 6
                            /\ ~(failed /\ "CloseHandle(hMapping)" \in S)
            /\ view' = /\ mapped
                        /\ ~(failed /\ S \cap {"munmap", "UnmapViewOfFile"} # {})
            /\ memory' = IF kept \/ leaked THEN mem ELSE Nil
            /\ writable' = (kept \/ leaked)
            /\ finalizer' = (kept \/ leaked)
            /\ shared' = (kept \/ leaked)
            /\ region' = IF kept
                          THEN [offset |-> 0, length |-> size, inner |-> 0,
                                exec |-> FALSE]
                          ELSE NoRegion
            /\ base' = NextBase("m", NoBase)
            /\ UNCHANGED <<platform, file0, fd, threads, locked, txs>>

\* ------------------------------------------- Segment over a Transaction
\* the operands and offsets of the calls made through a Transaction
TxSegOffsets == 0..4
TxOperands == {[w |-> 1, v |-> 1], [w |-> 2, v |-> 1]}
TxOperandLists == UNION {[1..k -> TxOperands] : k \in 0..MaxOps}

\* Segment.read on the Transaction with the fields tx
TxSegRead(tx, w, offset) ==
    LET r == TransactionReadAtOn(tx, "seg", Zeros(w), offset)
    IN  [err |-> IF r.err # "nil" THEN r.err
                 ELSE IF r.n < w THEN "PartialRead" ELSE "nil",
         n |-> r.n, buf |-> r.buf]

\* Segment.write on the Transaction with the fields tx: the error and the
\* snapshot after it
TxSegWrite(tx, buf, offset) ==
    LET r == TransactionWriteAtOn(tx, "seg", buf, offset)
    IN  [err |-> IF r.res.err # "nil" THEN r.res.err
                 ELSE IF r.res.n < 1 THEN "PartialWrite" ELSE "nil",
         n |-> r.res.n, snap |-> r.snap]

\* SegStep with a Transaction as the store
TxSegStep(kind, tx, offset, opnd) ==
    LET w == opnd.w
        m == ByteBase ^ w
        rd == TxSegRead(tx, w, offset)
        new == IF kind = "Set" THEN opnd.v
               ELSE IF kind = "Inc" THEN (Uint(rd.buf) + opnd.v) % m
               ELSE (Uint(rd.buf) - opnd.v) % m
        wr == TxSegWrite(tx, PutUint(new, w), offset)
    IN  IF w = 0
        THEN [err |-> "UnsupportedType", snap |-> tx.snapshot, n |-> 0,
              val |-> opnd.v]
        ELSE IF kind # "Set" /\ rd.err # "nil"
        THEN [err |-> rd.err, snap |-> tx.snapshot, n |-> rd.n, val |-> opnd.v]
        ELSE IF kind = "Get"
        THEN [err |-> "nil", snap |-> tx.snapshot, n |-> rd.n,
              val |-> Uint(rd.buf)]
        ELSE [err |-> wr.err, snap |-> wr.snap, n |-> wr.n, val |-> opnd.v]

\* SegRun with a Transaction as the store
RECURSIVE TxSegRun(_, _, _, _, _)
TxSegRun(kind, tx, offset, ops, i) ==
    IF i > Len(ops)
    THEN [err |-> "nil", snap |-> tx.snapshot, out |-> <<>>,
          index |-> Len(ops), at |-> offset, n |-> 0]
    ELSE LET s == TxSegStep(kind, tx, offset, ops[i])
         IN  IF s.err # "nil"
             THEN [err |-> s.err, snap |-> s.snap,
                   out |-> [j \in 1..(Len(ops) - i + 1) |-> ops[i + j - 1].v],
                   index |-> i - 1, at |-> offset, n |-> s.n]
             ELSE LET rest == TxSegRun(kind, [tx EXCEPT !.snapshot = s.snap],
                                       SegNext(Zeros(ops[i].w), offset),
                                       ops, i + 1)
                  IN  [rest EXCEPT !.out = <<s.val>> \o rest.out]

\* one call of Get, Set, Inc or Dec on the Segment over Transaction t
\* (MappedSegmentTransaction), r being what its loop returns
TxSegCall(kind, t, offset, ops, r) ==
    /\ txs' = [txs EXCEPT ![t].snapshot = r.snap]
    /\ last' = [SegRes(kind, offset, ops, r) EXCEPT !.tx = t]
    /\ base' = NextBase(t, [mem |-> base[t].mem, pat |-> Nil])
    /\ UNCHANGED <<consts, file, memory, writable, locked, handles>>

TxGet ==
    \E t \in DOMAIN txs :
        /\ ~Crashed
        /\ txs[t].begun
        /\ \E offset \in TxSegOffsets, ops \in TxOperandLists :
            \E r \in {TxSegRun("Get", txs[t], offset, ops, 1)} :
                TxSegCall("Get", t, offset, ops, r)

TxSet ==
    \E t \in DOMAIN txs :
        /\ ~Crashed
        /\ txs[t].begun
        /\ \E offset \in TxSegOffsets, ops \in TxOperandLists :
            \E r \in {TxSegRun("Set", txs[t], offset, ops, 1)} :
                TxSegCall("Set", t, offset, ops, r)

TxInc ==
    \E t \in DOMAIN txs :
        /\ ~Crashed
        /\ txs[t].begun
        /\ \E offset \in TxSegOffsets, ops \in TxOperandLists :
            \E r \in {TxSegRun("Inc", txs[t], offset, ops, 1)} :
                TxSegCall("Inc", t, offset, ops, r)

TxDec ==
    \E t \in DOMAIN txs :
        /\ ~Crashed
        /\ txs[t].begun
        /\ \E offset \in TxSegOffsets, ops \in TxOperandLists :
            \E r \in {TxSegRun("Dec", txs[t], offset, ops, 1)} :
                TxSegCall("Dec", t, offset, ops, r)

\* ------------------------------------- concurrent callers of a Segment
\* Two goroutines each make one call of Inc with one operand on the Segment
\* over the Mapping.  Nothing orders the statements of one call against
\* those of the other, and the copy of ReadAt and of WriteAt moves the slot
\* byte by byte in an order the runtime chooses against the other's copy.
\* offsets and operands the goroutines pass: slots that lie in the store
RaceOffsets == 0..1
RaceWidths == {1, 2}
RaceOperands ==
    UNION {{[w |-> w, v |-> v] : v \in 1..((ByteBase ^ w) - 1)} :
               w \in RaceWidths}

\* what neither a step of a goroutine inside Inc nor one inside ReadAt or
\* Close changes
raceFrame == <<platform, mode, shared, file0, fd, path, region, base, txs>>

\* goroutine g enters Inc(offset, v): buf := make([]byte, w)
IncCall(g) ==
    \E offset \in RaceOffsets, opnd \in RaceOperands :
        /\ threads[g] = Idle
        /\ threads' = [threads EXCEPT ![g] =
                          [Idle EXCEPT !.pc = "read", !.op = "Inc",
                                       !.off = offset, !.w = opnd.w,
                                       !.v = opnd.v, !.buf = Zeros(opnd.w)]]
        /\ UNCHANGED <<raceFrame, file, memory, writable, locked, handles,
                       last>>

\* IncWrite adding the delta to what the slot holds when it writes, in one
\* step, instead of writing what it computed from its own read
IncWriteAtomicAdd(g) ==
    LET t == threads[g]
        now == Uint(SubSeq(memory, t.off + 1, t.off + t.w))
        new == PutUint((now + t.v) % (ByteBase ^ t.w), t.w)
    IN  /\ t.pc = "write"
        /\ memory' = SubSeq(memory, 1, t.off) \o new
                         \o Drop(memory, t.off + t.w)
        /\ file' = FileAfter(memory')
        /\ threads' = [threads EXCEPT ![g].pc = "done", ![g].k = t.w]
        /\ last' = Res("Inc", g, t.off, 0, t.buf, t.w, "nil")
        /\ UNCHANGED <<raceFrame, writable, locked, handles>>

\* seg.read(buf, offset): the copy of Mapping.ReadAt moves the next byte of
\* the slot into buf; after the last one the goroutine adds its delta to
\* the value it read and encodes the sum into buf
IncRead(g) ==
    LET t == threads[g]
        got == [t.buf EXCEPT ![t.k + 1] = memory[t.off + t.k + 1]]
    IN  /\ t.pc = "read"
        /\ threads' = [threads EXCEPT ![g] =
                          IF t.k + 1 < t.w
                          THEN [t EXCEPT !.buf = got, !.k = t.k + 1]
                          ELSE [t EXCEPT !.pc = "write", !.k = 0,
                                         !.buf = PutUint((Uint(got) + t.v)
                                                     % (ByteBase ^ t.w), t.w)]]
        /\ UNCHANGED <<raceFrame, file, memory, writable, locked, handles,
                       last>>

\* seg.write(buf, offset): the copy of Mapping.WriteAt moves the next byte of
\* buf into the slot; after the last one Inc returns nil
IncWrite(g) ==
    LET t == threads[g]
    IN  /\ t.pc = "write"
        /\ memory' = [memory EXCEPT ![t.off + t.k + 1] = t.buf[t.k + 1]]
        /\ file' = FileAfter(memory')
        /\ IF t.k + 1 < t.w
           THEN /\ threads' = [threads EXCEPT ![g].k = t.k + 1]
                /\ UNCHANGED last
           ELSE /\ threads' = [threads EXCEPT ![g].pc = "done",
                                              ![g].k = t.w]
                /\ last' = Res("Inc", g, t.off, 0, t.buf, t.w, "nil")
        /\ UNCHANGED <<raceFrame, writable, locked, handles>>

\* ------------------------------------- concurrent callers of a Mapping
\* Goroutines calling Close, ReadAt, WriteAt and Transaction.Commit on the
\* same Mapping at the same time, one call each.  A call examines
\* mapping.memory once, at its closed check; what it does afterwards it does
\* whatever another goroutine has done to the Mapping since.  An OS call on
\* a resource that is held succeeds here: the failures of the OS are those
\* of Close, Sync and New above.
RaceThreads == {"g1", "g2", "g3"}
AccessOps == {"ReadAt", "WriteAt", "Commit"}
\* the Transaction the goroutines commit
RaceTx == "t1"

\* goroutine g returns err from its call
Return(g, err, hit) ==
    /\ threads' = [threads EXCEPT ![g].pc = "done", ![g].err = err,
                                  ![g].hit = hit]
    /\ last' = Res(threads[g].op, g, 0, 0, threads[g].buf, 0, err)

\* goroutine g enters Close: if mapping.memory == nil { return ErrorClosed }
CloseEnter(g) ==
    /\ ~Crashed
    /\ threads[g] = Idle
    /\ IF memory = Nil
       THEN /\ threads' = [threads EXCEPT ![g] =
                              [Idle EXCEPT !.pc = "done", !.op = "Close",
                                           !.err = "Closed"]]
            /\ last' = Res("Close", g, 0, 0, Nil, 0, "Closed")
       ELSE /\ threads' = [threads EXCEPT ![g] =
                              [Idle EXCEPT !.pc = "sync", !.op = "Close"]]
            /\ UNCHANGED last
    /\ UNCHANGED <<raceFrame, file, memory, writable, locked, handles>>

\* if mapping.writable { Sync() }: Sync makes its own closed check, and its
\* OS calls fail on a region that is unmapped or a handle that is closed;
\* if mapping.locked { Unlock() }: no goroutine locks here
CloseSync(g) ==
    LET bad == {i \in 1..Len(SyncCalls) : ~Feasible(SyncCalls[i])}
        first == CHOOSE i \in bad : \A j \in bad : i <= j
    IN  /\ ~Crashed
        /\ threads[g].op = "Close" /\ threads[g].pc = "sync"
        /\ IF ~writable
           THEN /\ threads' = [threads EXCEPT ![g].pc = "release"]
                /\ UNCHANGED last
           ELSE IF memory = Nil THEN Return(g, "Closed", FALSE)
           ELSE IF bad # {} THEN Return(g, SyncCalls[first], ~view)
           ELSE /\ threads' = [threads EXCEPT ![g].pc = "release"]
                /\ UNCHANGED last
        /\ UNCHANGED <<raceFrame, file, memory, writable, locked, handles>>

\* CloseRelease looking at the region again before it unmaps it, and
\* returning ErrorClosed when it is gone
CloseReleaseRechecks(g) ==
    \E stale, reused \in BOOLEAN :
        LET t == threads[g]
            c == ReleaseCalls[t.k + 1]
            unmap == c \in {"munmap", "UnmapViewOfFile"}
            zero == memory = Nil /\ ~stale
            ok == ~zero /\ (Feasible(c) \/ reused)
            touches == unmap /\ ~zero
        IN  /\ ~Crashed
            /\ t.op = "Close" /\ t.pc = "release"
            /\ memory # Nil => ~stale
            /\ (zero \/ Feasible(c)) => ~reused
            /\ IF unmap /\ ~view
               THEN /\ ~reused
                    /\ Return(g, "Closed", t.hit)
                    /\ UNCHANGED <<view, hMapping, hFile>>
               ELSE /\ view' = (view /\ ~(ok /\ unmap))
                    /\ hMapping' =
                           (hMapping /\ ~(ok /\ c = "CloseHandle(hMapping)"))
                    /\ hFile' = (hFile /\ ~(ok /\ c = "CloseHandle(hFile)"))
                    /\ IF ok
                       THEN /\ threads' = [threads EXCEPT
                                   ![g].k = t.k + 1,
                                   ![g].hit = t.hit \/ touches,
                                   ![g].pc = IF t.k + 1 = Len(ReleaseCalls)
                                             THEN "reset" ELSE "release"]
                            /\ UNCHANGED last
                       ELSE Return(g, c, t.hit \/ touches)
            /\ UNCHANGED <<raceFrame, file, memory, writable, locked,
                           finalizer>>

\* the next release call of Close: munmap, or UnmapViewOfFile and the two
\* CloseHandle.  The address, the length and the handles are fields of the
\* Mapping: read after another goroutine's reset they are zero and the call
\* fails; read before it (stale) they name the region and the handles of
\* the Mapping, and a call on a region that is already unmapped or a handle
\* that is already closed fails or, if the address or handle has been given
\* out again, releases something else and succeeds.
CloseRelease(g) ==
    \E stale, reused \in BOOLEAN :
        LET t == threads[g]
            c == ReleaseCalls[t.k + 1]
            unmap == c \in {"munmap", "UnmapViewOfFile"}
            zero == memory = Nil /\ ~stale
            ok == ~zero /\ (Feasible(c) \/ reused)
            touches == unmap /\ ~zero
        IN  /\ ~Crashed
            /\ t.op = "Close" /\ t.pc = "release"
            /\ memory # Nil => ~stale
            /\ (zero \/ Feasible(c)) => ~reused
            /\ view' = (view /\ ~(ok /\ unmap))
            /\ hMapping' = (hMapping /\ ~(ok /\ c = "CloseHandle(hMapping)"))
            /\ hFile' = (hFile /\ ~(ok /\ c = "CloseHandle(hFile)"))
            /\ IF ok
               THEN /\ threads' = [threads EXCEPT
                           ![g].k = t.k + 1,
                           ![g].hit = t.hit \/ touches,
                           ![g].pc = IF t.k + 1 = Len(ReleaseCalls)
                                     THEN "reset" ELSE "release"]
                    /\ UNCHANGED last
               ELSE Return(g, c, t.hit \/ touches)
            /\ UNCHANGED <<raceFrame, file, memory, writable, locked,
                           finalizer>>

\* *m = Mapping{}; runtime.SetFinalizer(m, nil); return nil
CloseReset(g) ==
    /\ ~Crashed
    /\ threads[g].op = "Close" /\ threads[g].pc = "reset"
    /\ memory' = Nil
    /\ writable' = FALSE
    /\ locked' = FALSE
    /\ finalizer' = FALSE
    /\ Return(g, "nil", threads[g].hit)
    /\ UNCHANGED <<raceFrame, file, view, hMapping, hFile>>

\* goroutine g enters ReadAt(buf, 0) or WriteAt(buf, 0) with a buffer of one
\* byte, or Commit on the open Transaction, and makes the checks that come
\* before the copy
AccessEnter(g) ==
    \E op \in AccessOps :
        LET err == IF op = "Commit" /\ txs[RaceTx].snapshot = Nil
                   THEN "TransactionClosed"
                   ELSE IF memory = Nil THEN "Closed"
                   ELSE IF op = "WriteAt" /\ ~writable THEN "IllegalOperation"
                   ELSE "nil"
            t == [Idle EXCEPT !.op = op,
                              !.buf = IF op = "Commit" THEN Nil ELSE <<1>>]
        IN  /\ ~Crashed
            /\ threads[g] = Idle
            /\ op = "Commit" => txs[RaceTx].begun
            /\ IF err # "nil"
               THEN /\ threads' = [threads EXCEPT ![g] =
                                      [t EXCEPT !.pc = "done", !.err = err]]
                    /\ last' = Res(op, g, 0, 0, t.buf, 0, err)
               ELSE /\ threads' = [threads EXCEPT ![g] =
                                      [t EXCEPT !.pc = "copy"]]
                    /\ UNCHANGED last
            /\ UNCHANGED <<raceFrame, file, memory, writable, locked, handles>>

\* the copy of ReadAt, WriteAt or Commit.  The slice mapping.memory is read
\* again for the copy, or the value the closed check saw is still at hand
\* (stale): a slice over the region copies from or to the region, mapped or
\* not; the nil slice of a Mapping that was reset meanwhile yields no byte
\* for ReadAt and WriteAt and is out of range for Commit.
AccessCopy(g) ==
    \E stale \in BOOLEAN :
        LET t == threads[g]
            tx == txs[RaceTx]
            zero == memory = Nil /\ ~stale
            wr == MappingWriteAtOn(memory, TRUE, TRUE, t.buf, 0)
            cm == CommitResult(RaceTx)
        IN  /\ ~Crashed
            /\ t.op \in AccessOps /\ t.pc = "copy"
            /\ memory # Nil => ~stale
            /\ IF t.op = "Commit" /\ tx.snapshot = Nil
               \* another goroutine has committed: copy of no byte
               THEN /\ Return(g, "nil", FALSE)
                    /\ UNCHANGED <<memory, file, txs>>
               ELSE IF zero
               THEN /\ Return(g, IF t.op = "Commit" THEN "panic" ELSE "EOF",
                              FALSE)
                    /\ UNCHANGED <<memory, file, txs>>
               ELSE IF ~view
               THEN /\ Return(g, "fault", TRUE)
                    /\ UNCHANGED <<memory, file, txs>>
               ELSE /\ Return(g, "nil", TRUE)
                    /\ memory' = IF t.op = "WriteAt" THEN wr.mem
                                 ELSE IF t.op = "Commit" THEN cm.mem
                                 ELSE memory
                    /\ file' = FileAfter(memory')
                    /\ txs' = IF t.op = "Commit"
                              THEN [txs EXCEPT ![RaceTx].snapshot = Nil]
                              ELSE txs
            /\ UNCHANGED <<platform, mode, shared, file0, fd, path, region,
                           base, writable, locked, handles>>

Next ==
    \/ ReadAt
    \/ WriteAt
    \/ Lock
    \/ Unlock
    \/ Sync
    \/ Close
    \/ Begin
    \/ TxReadAt
    \/ TxWriteAt
    \/ Commit
    \/ Flush
    \/ Rollback

Spec == Init /\ [][Next]_vars

\* The Mapping on its own: its operations and Begin, no Transaction operation.
NextMapping ==
    \/ ReadAt
    \/ WriteAt
    \/ Lock
    \/ Unlock
    \/ Sync
    \/ Close
    \/ Begin

SpecMapping == Init /\ [][NextMapping]_vars

\* A Transaction and the operations of its parent that change what it
\* reads or writes.  A Transaction can only be begun on a writable Mapping,
\* and ModeWriteCopy differs from ModeReadWrite only in `file`.
InitTx == Init /\ mode = "ModeReadWrite"

NextTx ==
    \/ WriteAt
    \/ Close
    \/ Begin
    \/ TxReadAt
    \/ TxWriteAt
    \/ Commit
    \/ Flush
    \/ Rollback

SpecTx == InitTx /\ [][NextTx]_vars

\* Construction: the state before New, New itself, the caller closing its
\* descriptor, and the operations of the Mapping New returned.
InitNew ==
    /\ platform \in Platforms
    /\ mode = "none"
    /\ shared = FALSE
    /\ file0 = FileBytes
    /\ file = file0
    /\ memory = Nil
    /\ writable = FALSE
    /\ locked = FALSE
    /\ view = FALSE
    /\ hMapping = FALSE
    /\ hFile = FALSE
    /\ finalizer = FALSE
    /\ fd = TRUE
    /\ path = "present"
    /\ threads = NoThreads
    /\ region = NoRegion
    /\ txs = [t \in TxIds |-> NoTx]
    /\ base = [t \in TxIds |-> NoBase]
    /\ last = Res("none", "m", 0, 0, Nil, 0, "nil")

\* New returned a Mapping
Made == region # NoRegion

NextNew ==
    \/ New
    \/ CloseFd
    \/ Made /\ ReadAt
    \/ Made /\ WriteAt
    \/ Made /\ Sync
    \/ Made /\ Close

SpecNew == InitNew /\ [][NextNew]_vars

\* A Segment over a read-write Mapping of SegLen bytes (segment.NewMapped),
\* and one call on it.
InitSegment ==
    /\ platform = "linux"
    /\ mode = "ModeReadWrite"
    /\ shared = NewShared(platform, mode)
    /\ file0 \in SegStores
    /\ file = file0
    /\ memory = file0
    /\ writable = NewWritable(mode)
    /\ locked = FALSE
    /\ view = TRUE
    /\ hMapping = FALSE
    /\ hFile = FALSE
    /\ finalizer = TRUE
    /\ fd = FALSE
    /\ path = "present"
    /\ threads = NoThreads
    /\ region = [offset |-> 0, length |-> SegLen, inner |-> 0, exec |-> FALSE]
    /\ txs = [t \in TxIds |-> NoTx]
    /\ base = [t \in TxIds |-> NoBase]
    /\ last = Res("NewSegment", "seg", 0, SegLen, Nil, 0, "nil")

NextSegment ==
    \/ Get
    \/ Set
    \/ Inc
    \/ Dec

SpecSegment == InitSegment /\ [][NextSegment]_vars

\* A Segment over a Transaction begun on the Mapping under a Segment
\* (MappedSegment.Begin), its calls, and Commit.
NextSegTx ==
    \/ Begin
    \/ TxGet
    \/ TxSet
    \/ TxInc
    \/ TxDec
    \/ Commit

SpecSegTx == InitSegment /\ [][NextSegTx]_vars

\* File provisioning: the file system before NewFile, NewFile itself, and the
\* operations of the Mapping under the segment it returned.
InitFile ==
    /\ platform \in Platforms
    /\ mode = "none"
    /\ shared = FALSE
    /\ path \in {"absent", "present"}
    /\ threads = NoThreads
    /\ file0 = IF path = "present" THEN OldFile ELSE Nil
    /\ file = file0
    /\ memory = Nil
    /\ writable = FALSE
    /\ locked = FALSE
    /\ view = FALSE
    /\ hMapping = FALSE
    /\ hFile = FALSE
    /\ finalizer = FALSE
    /\ fd = FALSE
    /\ region = NoRegion
    /\ txs = [t \in TxIds |-> NoTx]
    /\ base = [t \in TxIds |-> NoBase]
    /\ last = Res("none", "seg", 0, 0, Nil, 0, "nil")

NextFile ==
    \/ NewFile
    \/ Made /\ ReadAt
    \/ Made /\ WriteAt
    \/ Made /\ Close

SpecFile == InitFile /\ [][NextFile]_vars

\* Transactions that are dropped: SpecTx without the reads, with the
\* finalizer; a Transaction object that was freed can be created anew.
NextAbandon ==
    \/ WriteAt
    \/ Begin
    \/ TxWriteAt
    \/ Commit
    \/ Rollback
    \/ Finalize

SpecAbandon == InitTx /\ [][NextAbandon]_vars

\* Two Transactions side by side on a read-write Mapping, and direct writes
\* to the Mapping between their operations.  No OS call is made, so one
\* backend stands for both; the objects are named in the order they are
\* created; the calls of Begin, ReadAt and WriteAt that fail without
\* transferring a byte, which change nothing, are those of SpecTx and are
\* left out.
InitTwoTx ==
    /\ platform = "linux"
    /\ mode = "ModeReadWrite"
    /\ shared = NewShared(platform, mode)
    /\ file0 = Zeros(MapLen)
    /\ file = file0
    /\ memory = file0
    /\ writable = NewWritable(mode)
    /\ locked = FALSE
    /\ view = TRUE
    /\ hMapping = (platform = "windows")
    /\ hFile = (platform = "windows")
    /\ finalizer = TRUE
    /\ fd = TRUE
    /\ path = "present"
    /\ threads = NoThreads
    /\ region = [offset |-> 0, length |-> MapLen, inner |-> 0, exec |-> FALSE]
    /\ txs = [t \in TwoTxIds |-> NoTx]
    /\ base = [t \in TwoTxIds |-> NoBase]
    /\ last = Res("New", "m", 0, MapLen, Nil, 0, "nil")

NextTwoTx ==
    \/ WriteAt /\ last'.err = "nil"
    \/ Begin /\ last'.err = "nil" /\ (txs'["t2"].begun => txs["t1"].begun)
    \/ TxReadAt /\ last'.err \in {"nil", "EOF"}
    \/ TxWriteAt /\ last'.err \in {"nil", "EOF"}
    \/ Commit

SpecTwoTx == InitTwoTx /\ [][NextTwoTx]_vars

\* Two goroutines calling Inc on the Segment over the Mapping at the same
\* time, one call each.
NextIncRace ==
    \/ \E g \in DOMAIN threads : IncCall(g)
    \/ \E g \in DOMAIN threads : IncRead(g)
    \/ \E g \in DOMAIN threads : IncWrite(g)

SpecIncRace == InitSegment /\ [][NextIncRace]_vars

\* Goroutines calling into one read-write Mapping at the same time, after a
\* Transaction has been begun on it.
InitRace ==
    /\ platform \in Platforms
    /\ mode = "ModeReadWrite"
    /\ shared = NewShared(platform, mode)
    /\ file0 = Zeros(MapLen)
    /\ file = file0
    /\ memory = file0
    /\ writable = NewWritable(mode)
    /\ locked = FALSE
    /\ view = TRUE
    /\ hMapping = (platform = "windows")
    /\ hFile = (platform = "windows")
    /\ finalizer = TRUE
    /\ fd = TRUE
    /\ path = "present"
    /\ region = [offset |-> 0, length |-> MapLen, inner |-> 0, exec |-> FALSE]
    /\ threads = [g \in RaceThreads |-> Idle]
    /\ txs = [t \in TxIds |-> NoTx]
    /\ base = [t \in TxIds |-> NoBase]
    /\ last = Res("New", "m", 0, MapLen, Nil, 0, "nil")

NextRace ==
    \/ Begin /\ last'.err = "nil" /\ \A g \in DOMAIN threads : threads[g] = Idle
    \/ \E g \in DOMAIN threads : CloseEnter(g)
    \/ \E g \in DOMAIN threads : CloseSync(g)
    \/ \E g \in DOMAIN threads : CloseRelease(g)
    \/ \E g \in DOMAIN threads : CloseReset(g)
    \/ \E g \in DOMAIN threads : AccessEnter(g)
    \/ \E g \in DOMAIN threads : AccessCopy(g)

SpecRace == InitRace /\ [][NextRace]_vars

\* ================================================================== claims
MappingOps == {"ReadAt", "WriteAt", "Lock", "Unlock", "Sync", "Begin", "Close"}
TxOps == {"TxReadAt", "TxWriteAt", "Commit", "Flush", "Rollback"}

\* the Mapping bytes over the range of transaction t
Range(mem, t) == SubSeq(mem, txs[t].offset + 1, txs[t].highOffset)

\* C1 - Rollback isolation: after Begin(o, n), any sequence of
\* Transaction.ReadAt/WriteAt calls and a successful Rollback, every byte of
\* the parent Mapping equals its value immediately before Begin.
C1_RollbackIsolation ==
    \A t \in TxIds :
        (last.op = "Rollback" /\ last.tx = t /\ last.err = "nil"
            /\ base[t].mem # Nil)
        => memory = base[t].mem

\* a Rollback after a write that covered the range with a pattern differing
\* from the Mapping's bytes
C1_Witness ==
    \E t \in TxIds :
        /\ last.op = "Rollback" /\ last.tx = t /\ last.err = "nil"
        /\ base[t].mem # Nil /\ base[t].pat # Nil
        /\ base[t].pat # Range(base[t].mem, t)

\* C2 - Commit visibility: after a Transaction.WriteAt of a pattern P covering
\* [o, o+n) and a successful Commit, with no other call in between, a ReadAt
\* on the parent Mapping over [o, o+n) returns exactly P (n bytes, no error).
C2_CommitVisibility ==
    \A t \in TxIds :
        (last.op = "Commit" /\ last.tx = t /\ last.err = "nil"
            /\ base[t].pat # Nil)
        => LET P == base[t].pat
               r == MappingReadAt(memory, view, Zeros(Len(P)), txs[t].offset)
           IN  r.err = "nil" /\ r.n = Len(P) /\ r.buf = P

\* a Commit of a non-zero pattern over a range that does not start at 0
C2_Witness ==
    \E t \in TxIds :
        /\ last.op = "Commit" /\ last.tx = t /\ last.err = "nil"
        /\ base[t].pat # Nil /\ base[t].pat # Zeros(Len(base[t].pat))
        /\ txs[t].offset > 0

\* C3 - Write isolation: Begin, Transaction.ReadAt, Transaction.WriteAt and
\* Rollback never change a byte of the parent Mapping (nor of the file); of
\* the Transaction operations only Commit (and Flush, which commits) does.
C3_WriteIsolation ==
    [][last'.op \in {"Begin", "TxReadAt", "TxWriteAt", "Rollback"}
        => memory' = memory /\ file' = file]_vars

\* an open Transaction whose snapshot, after a WriteAt, differs from the
\* Mapping's bytes over its range
C3_Witness ==
    \E t \in TxIds :
        /\ last.op = "TxWriteAt" /\ last.tx = t /\ last.n > 0
        /\ memory # Nil /\ txs[t].snapshot # Nil
        /\ txs[t].snapshot # Range(memory, t)

\* C4 - Copy-on-write isolation: the file under a ModeWriteCopy Mapping keeps
\* the bytes it had when the Mapping was made, whatever is written and
\* synced; under a ModeReadWrite Mapping, after a successful Sync, the file
\* holds the Mapping's bytes.
C4_CopyOnWrite ==
    /\ mode = "ModeWriteCopy" => file = file0
    /\ (mode = "ModeReadWrite" /\ last.op = "Sync" /\ last.err = "nil")
        => file = memory

\* C5 - Closed guard and terminality: a successful Close leaves the Mapping
\* closed; on a closed Mapping ReadAt, WriteAt, Lock, Unlock, Sync, Begin and
\* Close fail with Closed, and no step reopens it.
C5_ClosedGuard ==
    [][/\ (last'.op = "Close" /\ last'.err = "nil") => memory' = Nil
       /\ memory = Nil =>
            /\ memory' = Nil
            /\ last'.op \in MappingOps => last'.err = "Closed"]_vars

\* a ReadAt on a closed Mapping
C5_Witness == memory = Nil /\ last.op = "ReadAt" /\ last.err = "Closed"

\* C6 - Exactly-one finalization: once Commit or Rollback has succeeded on a
\* Transaction (its snapshot is nil), every ReadAt, WriteAt, Commit, Flush
\* and Rollback on it fails with TransactionClosed, transfers nothing and
\* changes neither the Mapping nor the Transaction.
C6_ExactlyOneFinalization ==
    [][\A t \in TxIds :
        (txs[t].begun /\ txs[t].snapshot = Nil
            /\ last'.tx = t /\ last'.op \in TxOps)
        => /\ last'.err = "TransactionClosed"
           /\ last'.n = 0
           /\ UNCHANGED <<memory, file, writable, locked, handles, txs>>]_vars

\* a WriteAt refused on a finalized Transaction
C6_Witness ==
    \E t \in TxIds :
        /\ txs[t].begun /\ txs[t].snapshot = Nil
        /\ last.op = "TxWriteAt" /\ last.tx = t
        /\ last.err = "TransactionClosed"

\* C7 - Transaction bounds: on an open Transaction over [start, end), ReadAt
\* and WriteAt with an offset below start or at or beyond end fail with
\* InvalidOffset, transfer 0 bytes and leave the snapshot unchanged.
C7_TransactionBounds ==
    [][\A t \in TxIds :
        (txs[t].snapshot # Nil
            /\ last'.tx = t /\ last'.op \in {"TxReadAt", "TxWriteAt"}
            /\ (last'.off < txs[t].offset \/ last'.off >= txs[t].highOffset))
        => /\ last'.err = "InvalidOffset"
           /\ last'.n = 0
           /\ txs' = txs]_vars

\* C8 - Begin length validation: on an open writable Mapping of length L and
\* a valid offset, Begin(offset, length) fails with InvalidLength and creates
\* nothing when length = 0 or offset + length > L (over the naturals), and
\* otherwise succeeds with a snapshot of `length` bytes and
\* end = offset + length.
C8_BeginLength ==
    \A t \in TxIds :
        (last.op = "Begin" /\ last.tx = t
            /\ memory # Nil /\ view /\ writable
            /\ last.off >= 0 /\ last.off < Len(memory))
        => IF last.len = 0 \/ last.off + last.len > Len(memory)
           THEN last.err = "InvalidLength" /\ ~txs[t].begun
           ELSE /\ last.err = "nil"
                /\ txs[t].begun
                /\ Len(txs[t].snapshot) = last.len
                /\ txs[t].offset = last.off
                /\ txs[t].highOffset = last.off + last.len

\* nothing but the result of the call changes
C9_Frame ==
    /\ last'.n = 0
    /\ UNCHANGED <<memory, file, writable, locked, handles, txs>>

\* C9 as stated - Bounds guard: on an open Mapping of length L, ReadAt,
\* WriteAt and Begin with offset < 0 or offset >= L fail with InvalidOffset,
\* and Begin with length 0 fails with InvalidLength; the failure changes
\* nothing and creates no Transaction.
C9_BoundsGuardAsStated ==
    [][memory # Nil =>
        /\ (last'.op \in {"ReadAt", "WriteAt", "Begin"}
                /\ (last'.off < 0 \/ last'.off >= Len(memory)))
            => last'.err = "InvalidOffset" /\ C9_Frame
        /\ (last'.op = "Begin" /\ last'.len = 0)
            => last'.err = "InvalidLength" /\ C9_Frame]_vars

\* C9 - Bounds guard: on an open Mapping of length L, ReadAt with offset < 0
\* or offset >= L fails with InvalidOffset; on an open writable Mapping
\* WriteAt and Begin with such an offset fail with InvalidOffset, and Begin
\* with a valid offset and length 0 fails with InvalidLength; the failure
\* changes nothing and creates no Transaction.
C9_BoundsGuard ==
    [][memory # Nil =>
        /\ (last'.op = "ReadAt"
                /\ (last'.off < 0 \/ last'.off >= Len(memory)))
            => last'.err = "InvalidOffset" /\ C9_Frame
        /\ (last'.op \in {"WriteAt", "Begin"} /\ writable
                /\ (last'.off < 0 \/ last'.off >= Len(memory)))
            => last'.err = "InvalidOffset" /\ C9_Frame
        /\ (last'.op = "Begin" /\ writable /\ last'.len = 0
                /\ last'.off >= 0 /\ last'.off < Len(memory))
            => last'.err = "InvalidLength" /\ C9_Frame]_vars

\* a WriteAt at offset = L refused on an open writable Mapping that already
\* holds written bytes
C9_Witness ==
    /\ memory # Nil /\ writable /\ memory # file0
    /\ last.op = "WriteAt" /\ last.off >= Len(memory)
    /\ last.err = "InvalidOffset"

\* C10 as stated - Mapping round-trip: on a ModeReadWrite Mapping, WriteAt(b, o)
\* at a valid offset followed by ReadAt(buf, o) with len(buf) = len(b) yields
\* buf = b, for any b.
C10_RoundTripAsStated ==
    [][(mode = "ModeReadWrite"
            /\ last.op = "WriteAt" /\ last.err \in {"nil", "EOF"}
            /\ last'.op = "ReadAt" /\ last'.off = last.off
            /\ Len(last'.buf) = Len(last.buf))
        => last'.buf = last.buf]_vars

\* C10 - Mapping round-trip: on a ModeReadWrite Mapping of length L,
\* WriteAt(b, o) with 0 <= o and o + len(b) <= L followed by ReadAt(buf, o)
\* with len(buf) = len(b) yields buf = b, all len(b) bytes and no error.
C10_RoundTrip ==
    [][(mode = "ModeReadWrite"
            /\ last.op = "WriteAt" /\ last.err \in {"nil", "EOF"}
            /\ last.off + Len(last.buf) <= Len(memory)
            /\ last'.op = "ReadAt" /\ last'.off = last.off
            /\ Len(last'.buf) = Len(last.buf))
        => /\ last'.buf = last.buf
           /\ last'.n = Len(last.buf)
           /\ last'.err = "nil"]_vars

\* a ReadAt at an offset above 0 that returned written (non-zero) bytes
C10_Witness ==
    /\ mode = "ModeReadWrite"
    /\ last.op = "ReadAt" /\ last.err = "nil" /\ last.off > 0
    /\ last.n >= 1 /\ last.buf # Zeros(Len(last.buf))

\* the Mapping is open and the OS still has its region mapped
OpenMapped == memory # Nil /\ view

\* C11 - Short transfer: on an open Mapping of length L and a valid offset o,
\* ReadAt(buffer, o) copies exactly n = min(len(buffer), L - o) bytes, the
\* Mapping's bytes o..o+n-1 into buffer[0..n-1], and returns n, with io.EOF
\* if and only if n < len(buffer); WriteAt on a writable Mapping copies the
\* same n bytes the other way, returns n and io.EOF alike, and leaves every
\* other byte of the Mapping unchanged.
C11_ShortTransfer ==
    [][(OpenMapped /\ last'.op \in {"ReadAt", "WriteAt"}
            /\ last'.off >= 0 /\ last'.off < Len(memory))
        => LET o == last'.off
               b == last'.buf
               n == Min(Len(b), Len(memory) - o)
           IN  /\ last'.op = "ReadAt" =>
                    /\ last'.n = n
                    /\ last'.err = (IF n < Len(b) THEN "EOF" ELSE "nil")
                    /\ \A i \in 1..Len(b) :
                           b[i] = IF i <= n THEN memory[o + i] ELSE 0
                    /\ memory' = memory
               /\ (last'.op = "WriteAt" /\ writable) =>
                    /\ last'.n = n
                    /\ last'.err = (IF n < Len(b) THEN "EOF" ELSE "nil")
                    /\ Len(memory') = Len(memory)
                    /\ \A j \in 1..Len(memory) :
                           memory'[j] = IF j > o /\ j <= o + n
                                        THEN b[j - o] ELSE memory[j]]_vars

\* a write cut short at the end of the Mapping: one byte of a longer buffer
\* written at the last offset
C11_Witness ==
    /\ last.op = "WriteAt" /\ last.err = "EOF"
    /\ last.n >= 1 /\ last.n < Len(last.buf)
    /\ last.off = Len(memory) - last.n
    /\ memory[Len(memory)] = 1

\* the elements of a sequence
Elems(s) == {s[i] : i \in 1..Len(s)}

SyncNames == {"msync", "FlushViewOfFile", "FlushFileBuffers"}
UnlockNames == {"munlock", "VirtualUnlock"}
LockNames == {"mlock", "VirtualLock"}
ReleaseNames == {"munmap", "UnmapViewOfFile", "CloseHandle(hMapping)",
                 "CloseHandle(hFile)"}

Succeeded(r) ==
    IF r.err \in Elems(r.calls)
    THEN Elems(SubSeq(r.calls, 1, Len(r.calls) - 1))
    ELSE Elems(r.calls)

IsPrefix(s, t) == Len(s) <= Len(t) /\ s = SubSeq(t, 1, Len(s))

\* C14 - Close ordering: Close on an open Mapping issues, in this order, the
\* synchronizing calls if and only if the Mapping is writable, the unlock if
\* and only if it is locked, then the release of the region (on windows
\* followed by the release of the mapping handle and of the duplicated file
\* handle), stopping at the first call that fails and returning its error;
\* when a synchronizing call or the unlock fails no release call is issued
\* and the Mapping stays open, holding what it held.
C14_CloseOrdering ==
    [][(memory # Nil /\ last'.op = "Close") =>
        LET sync == IF ~writable THEN <<>>
                    ELSE IF platform = "linux" THEN <<"msync">>
                    ELSE <<"FlushViewOfFile", "FlushFileBuffers">>
            unlock == IF ~locked THEN <<>>
                      ELSE IF platform = "linux" THEN <<"munlock">>
                      ELSE <<"VirtualUnlock">>
            release == IF platform = "linux" THEN <<"munmap">>
                       ELSE <<"UnmapViewOfFile", "CloseHandle(hMapping)",
                              "CloseHandle(hFile)">>
            c == last'.calls
        IN  /\ c # <<>>
            /\ IsPrefix(c, sync \o unlock \o release)
            /\ last'.err \in {"nil", c[Len(c)]}
            /\ last'.err = "nil" =>
                    (c = sync \o unlock \o release /\ memory' = Nil)
            /\ last'.err \in SyncNames \cup UnlockNames =>
                    /\ Elems(c) \cap ReleaseNames = {}
                    /\ memory' = memory
                    /\ UNCHANGED <<writable, handles>>
            /\ last'.err \in SyncNames =>
                    (Elems(c) \cap UnlockNames = {} /\ locked' = locked)
            /\ last'.err \in UnlockNames => locked' = locked]_vars

\* a Close on a writable, locked Mapping stopped by the unlock failing after
\* the synchronization succeeded: the Mapping is still open and locked
C14_Witness ==
    /\ last.op = "Close" /\ last.err \in UnlockNames
    /\ Len(last.calls) >= 2 /\ last.calls[1] \in SyncNames
    /\ memory # Nil /\ locked /\ view

\* C15 - Exactly-once release: over any sequence of Close calls (explicit or
\* made by the finalizer), with any OS call allowed to fail, each OS
\* resource of the Mapping (the mapped region, the file-mapping handle, the
\* duplicated file handle) is released at most once: Close issues a release
\* call only for a resource the Mapping still holds, and a successful Close
\* deregisters the finalizer.
C15_ExactlyOnceRelease ==
    [][last'.op = "Close" =>
        /\ \A c \in Elems(last'.calls) \cap ReleaseNames : Feasible(c)
        /\ last'.err = "nil" => (~finalizer' /\ ~view' /\ ~hMapping' /\ ~hFile')
      ]_vars

\* C16 - Construction validation: New fails with InvalidOffset when the
\* offset is negative, with InvalidLength when the length exceeds the largest
\* signed platform integer, and with InvalidMode when the mode is none of
\* ReadOnly, ReadWrite, WriteCopy (checked in this order); in each of these
\* cases New has made no OS call, established no mapping, retained no
\* handle and registered no finalizer.
C16_ConstructionValidation ==
    last.op = "New" =>
        /\ last.off < 0 => last.err = "InvalidOffset"
        /\ (last.off >= 0 /\ last.len > MaxInt) => last.err = "InvalidLength"
        /\ (last.off >= 0 /\ last.len <= MaxInt /\ mode \notin Modes)
            => last.err = "InvalidMode"
        /\ last.err \in {"InvalidOffset", "InvalidLength", "InvalidMode"}
            => /\ last.calls = <<>>
               /\ memory = Nil /\ region = NoRegion
               /\ ~view /\ ~hMapping /\ ~hFile /\ ~finalizer

\* New refused a mode above ModeWriteCopy on the backend that duplicates the
\* descriptor, offset and length being valid
C16_Witness ==
    /\ last.op = "New" /\ last.err = "InvalidMode"
    /\ platform = "windows" /\ mode = "Mode(3)" /\ last.off > 0

\* C17 - Page alignment: for every offset >= 0 and length, a successful New
\* has established the OS mapping at the file offset
\* offset - (offset mod pageSize), a multiple of pageSize, with the length
\* length + (offset mod pageSize), and exposes exactly `length` bytes, byte
\* i of the Mapping being byte offset + i of the file.
C17_PageAlignment ==
    (last.op = "New" /\ last.err = "nil") =>
        /\ region.offset = last.off - (last.off % PageSize)
        /\ region.offset % PageSize = 0
        /\ region.length = last.len + (last.off % PageSize)
        /\ Len(memory) = last.len
        /\ \A i \in 1..Len(memory) : memory[i] = file0[last.off + i]

\* the Mapping New returned holds everything New acquired
Intact ==
    /\ Made /\ memory # Nil /\ view
    /\ platform = "windows" => (hMapping /\ hFile)

C18_ReadOk == ReadAt /\ last'.err = "nil" /\ last'.n >= 1
C18_WriteOk == WriteAt /\ last'.err = "nil" /\ last'.n >= 1
C18_SyncOk == Sync /\ last'.err = "nil"
C18_CloseOk == Close /\ last'.err = "nil"

\* C18 - Descriptor independence: once New has succeeded and the caller has
\* closed its descriptor, ReadAt and Close on the Mapping can still succeed,
\* and so can WriteAt and Sync on a writable one: no OS call the Mapping
\* makes needs the caller's descriptor.
C18_DescriptorIndependence ==
    (~fd /\ Intact) =>
        /\ ENABLED C18_ReadOk
        /\ ENABLED C18_CloseOk
        /\ writable => (ENABLED C18_WriteOk /\ ENABLED C18_SyncOk)

\* a Sync that succeeded on the handle-duplicating backend after the caller
\* closed its descriptor and after a write
C18_Witness ==
    /\ ~fd /\ Intact /\ platform = "windows"
    /\ last.op = "Sync" /\ last.err = "nil"
    /\ memory # SubSeq(file0, region.offset + region.inner + 1,
                       region.offset + region.inner + Len(memory))

\* C19 - Segment big-endian round-trip: for each width w of 1, 2, 4, 8 bytes,
\* every value v of that width and every offset o with o + w <= the store's
\* length, Set(o, v) succeeds, writes exactly the w bytes of v, most
\* significant byte first, at o..o+w-1 and changes no other byte, and a
\* following Get(o, &r) with r of the same width yields r = v.
C19_BigEndianRoundTrip ==
    [][(last'.op = "Set" /\ Len(last'.ops) = 1
            /\ last'.ops[1].w \in Widths
            /\ last'.off >= 0
            /\ last'.off + last'.ops[1].w <= Len(memory))
        => LET o == last'.off
               w == last'.ops[1].w
               v == last'.ops[1].v
               g == SegRun("Get", memory', o, <<[w |-> w, v |-> 0]>>, 1)
           IN  /\ last'.err = "nil"
               /\ Len(memory') = Len(memory)
               /\ \A j \in 1..Len(memory) :
                      memory'[j] =
                          IF j > o /\ j <= o + w
                          THEN (v \div (ByteBase ^ (o + w - j))) % ByteBase
                          ELSE memory[j]
               /\ g.err = "nil"
               /\ g.out = <<v>>]_vars

\* a Set of the two-byte value whose high byte is 1 and low byte 0, at an
\* offset above 0 of a zero store: the store holds 1, 0 there
C19_Witness ==
    /\ last.op = "Set" /\ last.err = "nil" /\ last.off > 0
    /\ last.ops = <<[w |-> 2, v |-> ByteBase]>>
    /\ file0 = Zeros(SegLen)
    /\ SubSeq(memory, last.off + 1, last.off + 2) = <<1, 0>>

\* the bytes of the first k operands of a list
RECURSIVE WidthSum(_, _)
WidthSum(ops, k) == IF k = 0 THEN 0 ELSE WidthSum(ops, k - 1) + ops[k].w

\* the value held by the slot of w bytes at offset c of a store
Slot(mem, c, w) == Uint(SubSeq(mem, c + 1, c + w))

\* C20 - Cursor advance: in a Get, Set, Inc or Dec at offset o whose operands
\* have the widths w_0..w_k and all fit into the store, operand i is read or
\* written at o + w_0 + ... + w_(i-1): Get returns the value of each such
\* slot, Set stores v_i in it, Inc and Dec add or subtract v_i modulo the
\* width in it, and no byte outside the slots changes; Set(o, v_0..v_k)
\* followed by Get(o, slots of the same widths) returns v_0..v_k.
C20_CursorAdvance ==
    [][(last'.op \in {"Get", "Set", "Inc", "Dec"}
            /\ \A i \in 1..Len(last'.ops) : last'.ops[i].w \in Widths
            /\ last'.off >= 0
            /\ last'.off + WidthSum(last'.ops, Len(last'.ops)) <= Len(memory))
        => LET o == last'.off
               ops == last'.ops
               k == Len(ops)
               c(i) == o + WidthSum(ops, i - 1)
               m(i) == ByteBase ^ ops[i].w
           IN  /\ last'.err = "nil"
               /\ Len(memory') = Len(memory)
               /\ \A j \in 1..Len(memory) :
                      (j <= o \/ j > o + WidthSum(ops, k))
                          => memory'[j] = memory[j]
               /\ last'.op = "Get" =>
                      /\ memory' = memory
                      /\ last'.out = [i \in 1..k |-> Slot(memory, c(i), ops[i].w)]
               /\ last'.op = "Set" =>
                      /\ \A i \in 1..k :
                             Slot(memory', c(i), ops[i].w) = ops[i].v
                      /\ SegRun("Get", memory', o, ops, 1).out
                             = [i \in 1..k |-> ops[i].v]
               /\ last'.op = "Inc" =>
                      \A i \in 1..k :
                          Slot(memory', c(i), ops[i].w)
                              = (Slot(memory, c(i), ops[i].w) + ops[i].v) % m(i)
               /\ last'.op = "Dec" =>
                      \A i \in 1..k :
                          Slot(memory', c(i), ops[i].w)
                              = (Slot(memory, c(i), ops[i].w) - ops[i].v) % m(i)
      ]_vars

\* a Set of a four-byte value followed by a two-byte value: the second one
\* lies four bytes after the first
C20_Witness ==
    /\ last.op = "Set" /\ last.err = "nil" /\ last.off > 0
    /\ Len(last.ops) = 2
    /\ last.ops[1].w = 4 /\ last.ops[2].w = 2 /\ last.ops[2].v = 1
    /\ memory[last.off + 6] = 1
    /\ file0 = Zeros(SegLen)

\* C21 - Inc/Dec wraparound: Inc(o, d) on a slot of w bytes that lies in the
\* store replaces its value x by (x + d) mod 2^(8w), Dec(o, d) by
\* (x - d) mod 2^(8w), and no byte outside the slot changes; on a zero slot
\* Inc(o, greatest value of the width) followed by Inc(o, 1) yields 0.
C21_IncDecWraparound ==
    [][(last'.op \in {"Inc", "Dec"}
            /\ Len(last'.ops) = 1
            /\ last'.ops[1].w \in Widths
            /\ last'.off >= 0
            /\ last'.off + last'.ops[1].w <= Len(memory))
        => LET o == last'.off
               w == last'.ops[1].w
               d == last'.ops[1].v
               m == ByteBase ^ w
               x == Slot(memory, o, w)
               again == SegRun("Inc", memory', o, <<[w |-> w, v |-> 1]>>, 1)
           IN  /\ last'.err = "nil"
               /\ Slot(memory', o, w) =
                      IF last'.op = "Inc" THEN (x + d) % m ELSE (x - d) % m
               /\ Slot(memory', o, w) \in 0..(m - 1)
               /\ memory' = SubSeq(memory, 1, o)
                                \o SubSeq(memory', o + 1, o + w)
                                \o Drop(memory, o + w)
               /\ (last'.op = "Inc" /\ x = 0 /\ d = m - 1) =>
                      /\ Slot(memory', o, w) = m - 1
                      /\ again.err = "nil"
                      /\ Slot(again.mem, o, w) = 0
      ]_vars

\* a two-byte slot holding the greatest value, incremented by one, holds zero
C21_Witness ==
    /\ last.op = "Inc" /\ last.err = "nil" /\ last.off = 3
    /\ last.ops = <<[w |-> 2, v |-> 1]>>
    /\ Slot(file0, 3, 2) = ByteBase ^ 2 - 1
    /\ Slot(memory, 3, 2) = 0

\* C22 - Partial transfer errors: when the transfer of operand i at the
\* cursor c, a valid offset of the store, moves n bytes, n less than the
\* operand's width, Get fails with PartialRead(i, c, n) and Set fails with
\* PartialWrite(i, c, n).
C22_PartialTransferErrors ==
    [][(last'.op \in {"Get", "Set"}
            /\ last'.index < Len(last'.ops)
            /\ last'.ops[last'.index + 1].w \in Widths
            /\ last'.at \in 0..(Len(memory) - 1)
            /\ last'.at + last'.ops[last'.index + 1].w > Len(memory))
        => /\ last'.n = Len(memory) - last'.at
           /\ last'.err = IF last'.op = "Get" THEN "PartialRead"
                           ELSE "PartialWrite"
      ]_vars

\* the position of the first operand of unsupported type (counted from 1),
\* 0 when every operand is supported
FirstUnsupported(ops) ==
    IF \A j \in 1..Len(ops) : ops[j].w \in Widths THEN 0
    ELSE CHOOSE i \in 1..Len(ops) :
             /\ ops[i].w \notin Widths
             /\ \A j \in 1..(i - 1) : ops[j].w \in Widths

\* C23 as stated - Unsupported operand: Get, Set, Inc and Dec given an
\* operand list whose first operand of unsupported type is at index i fail
\* with UnsupportedType(i).
C23_UnsupportedOperandAsStated ==
    [][(last'.op \in {"Get", "Set", "Inc", "Dec"}
            /\ FirstUnsupported(last'.ops) > 0)
        => /\ last'.err = "UnsupportedType"
           /\ last'.index = FirstUnsupported(last'.ops) - 1
      ]_vars

\* C23 - Unsupported operand: in a Get, Set, Inc or Dec whose first operand
\* of unsupported type is at index i, the operands before i are processed as
\* if they were the whole list; if one of them fails the call returns its
\* error, else it fails with UnsupportedType(i); either way no operand at
\* index >= i is read from or written to the store: the store is what the
\* operands before i made of it, and the slots from i on are not delivered.
C23_UnsupportedOperand ==
    [][(last'.op \in {"Get", "Set", "Inc", "Dec"}
            /\ FirstUnsupported(last'.ops) > 0)
        => LET ops == last'.ops
               i == FirstUnsupported(ops)
               before == SegRun(last'.op, memory, last'.off,
                                SubSeq(ops, 1, i - 1), 1)
           IN  /\ memory' = before.mem
               /\ \A j \in i..Len(ops) : last'.out[j] = ops[j].v
               /\ IF before.err = "nil"
                  THEN /\ last'.err = "UnsupportedType"
                       /\ last'.index = i - 1
                       /\ last'.at = last'.off + WidthSum(ops, i - 1)
                  ELSE /\ last'.err = before.err
                       /\ last'.index = before.index
                       /\ last'.index < i - 1
      ]_vars

\* a Set of a two-byte value and then an unsupported operand: the value is
\* stored, the call fails at index 1
C23_Witness ==
    /\ last.op = "Set" /\ last.err = "UnsupportedType" /\ last.index = 1
    /\ last.off = 2
    /\ last.ops = <<[w |-> 2, v |-> 1], Unsupported>>
    /\ Slot(memory, 2, 2) = 1 /\ Slot(file0, 2, 2) # 1

\* the bytes the Mapping would hold had the calls made through the open
\* Transaction t been made on the Mapping itself: the Mapping with the
\* snapshot laid over [start, end)
Overlay(mem, tx) ==
    IF tx.snapshot = Nil THEN mem
    ELSE SubSeq(mem, 1, tx.offset) \o tx.snapshot \o Drop(mem, tx.highOffset)

\* a Segment call through Transaction t has just been made on the open
\* Transaction, at an offset inside [start, end)
C24_CallInside(t) ==
    /\ last'.op \in {"Get", "Set", "Inc", "Dec"}
    /\ last'.tx = t
    /\ txs[t].snapshot # Nil
    /\ last'.off >= txs[t].offset
    /\ last'.off < txs[t].highOffset

\* that call leaves the Transaction as the same call on the Mapping would
\* have left the Mapping, and returns what it would have returned
C24_AsDirect(t) ==
    LET direct == SegRun(last'.op, Overlay(memory, txs[t]), last'.off,
                         last'.ops, 1)
    IN  /\ Overlay(memory', txs'[t]) = direct.mem
        /\ last'.err = direct.err
        /\ last'.out = direct.out

\* C24 as stated - Uniform absolute addressing: any Segment call at an
\* absolute offset inside [start, end) made through the Transaction has the
\* effect and the result of the same call made on the Mapping.
C24_UniformAddressingAsStated ==
    [][\A t \in TxIds : C24_CallInside(t) => C24_AsDirect(t)]_vars

\* C24 - Uniform absolute addressing: Begin makes the snapshot equal to the
\* Mapping over [start, end); every Segment Get, Set, Inc or Dec made through
\* the Transaction whose operands all lie inside [start, end) has the effect
\* and the result of the same call at the same offset on the Mapping; and a
\* successful Commit leaves the Mapping holding exactly those bytes.
C24_UniformAddressing ==
    [][\A t \in TxIds :
        /\ (last'.op = "Begin" /\ last'.tx = t /\ last'.err = "nil")
               => /\ memory' = memory
                  /\ Overlay(memory', txs'[t]) = memory
        /\ (C24_CallInside(t)
                /\ last'.off + WidthSum(last'.ops, Len(last'.ops))
                       <= txs[t].highOffset)
               => /\ C24_AsDirect(t)
                  /\ last'.err = "nil"
                  /\ memory' = memory
        /\ (last'.op = "Commit" /\ last'.tx = t /\ last'.err = "nil")
               => memory' = Overlay(memory, txs[t])
      ]_vars

\* a Transaction begun at offset 1 that changed its bytes has been committed
C24_Witness ==
    /\ last.op = "Commit" /\ last.err = "nil"
    /\ txs["t1"].offset = 1 /\ txs["t1"].highOffset = 4
    /\ SubSeq(memory, 2, 4) # SubSeq(file0, 2, 4)
    /\ memory[1] = file0[1] /\ Drop(memory, 4) = Drop(file0, 4)

\* C25 - Flush ordering: Flush commits and then synchronizes the parent
\* Mapping.  If Commit fails its error is returned and no OS call of Sync is
\* issued; if Commit succeeds the snapshot is in the Mapping and the
\* Transaction is closed whatever Sync returns, the OS calls of Sync are
\* issued, and Flush returns the error of Sync.
C25_FlushOrdering ==
    [][last'.op = "Flush" =>
        LET t == last'.tx
            c == CommitResult(t)
        IN  /\ memory' = c.mem
            /\ txs'[t].snapshot = c.snap
            /\ IF c.err # "nil"
               THEN /\ last'.err = c.err
                    /\ last'.calls = <<>>
                    /\ memory' = memory
                    /\ txs' = txs
               ELSE /\ memory' = Overlay(memory, txs[t])
                    /\ txs'[t].snapshot = Nil
                    /\ last'.calls # <<>>
                    /\ IsPrefix(last'.calls, SyncCalls)
                    /\ last'.err \in
                          {"nil", last'.calls[Len(last'.calls)]}
                    /\ last'.err = "nil" => last'.calls = SyncCalls
      ]_vars

\* a Flush whose Commit put new bytes into the Mapping and whose Sync failed
C25_Witness ==
    /\ last.op = "Flush" /\ last.err \in Elems(SyncCalls)
    /\ txs[last.tx].begun /\ txs[last.tx].snapshot = Nil
    /\ memory # Nil /\ memory # file0
    /\ Range(memory, last.tx) # Range(file0, last.tx)

\* C26 - File provisioning: NewFile that could open, size and map the file
\* invokes the initializer if and only if the path did not exist before the
\* call and an initializer was supplied.  If the initializer fails, NewFile
\* returns its error and no segment, having called Close on the new Mapping
\* and then removed the file: unless one of these calls, whose errors it
\* discards, failed, the Mapping is closed and the path is absent again.  A
\* file that was there before the call is never removed, and once mapped it
\* is returned with its bytes, the initializer not having run.
C26_FileProvisioning ==
    [][last'.op = "NewFile" =>
        LET existed == path = "present"
            mapped == /\ IsPrefix(FileCalls, last'.calls)
                      /\ last'.err \notin Elems(FileCalls)
            cleanup == SubSeq(last'.calls, Len(FileCalls) + 1,
                              Len(last'.calls))
        IN  /\ last'.ran <=> (~existed /\ last'.init /\ mapped)
            /\ (last'.ran /\ last'.err # "nil") =>
                   /\ last'.err = "InitError"
                   /\ ~last'.seg
                   /\ region' = NoRegion
                   /\ cleanup # <<>>
                   /\ cleanup[Len(cleanup)] = "Remove"
                   /\ IsPrefix(SubSeq(cleanup, 1, Len(cleanup) - 1),
                               CleanupCalls)
                   /\ Len(cleanup) >= 2
                   /\ last'.ignored = {} =>
                          /\ memory' = Nil
                          /\ ~view' /\ ~hMapping' /\ ~hFile' /\ ~finalizer'
                          /\ path' = "absent"
            /\ (mapped /\ ~(last'.ran /\ last'.err # "nil")) =>
                   /\ last'.err = "nil"
                   /\ last'.seg
                   /\ view' /\ memory' # Nil /\ file' = memory'
                   /\ path' = "present"
                   /\ cleanup = <<>>
            /\ existed =>
                   /\ path' = "present"
                   /\ ~last'.ran
                   /\ "Remove" \notin Elems(last'.calls)
                   /\ mapped => memory' = Truncated(file, last'.len)
      ]_vars

\* on windows the initializer of a new file failed: the Mapping is closed
\* and the file is gone
C26_Witness ==
    /\ last.op = "NewFile" /\ last.ran /\ last.err = "InitError"
    /\ platform = "windows" /\ file0 = Nil
    /\ last.ignored = {}
    /\ path = "absent" /\ memory = Nil /\ ~view /\ ~hFile /\ ~hMapping

\* C27 - Abandoned transaction: the Rollback the finalizer runs on a dropped
\* Transaction that is still open discards the snapshot and succeeds; on one
\* that was committed or rolled back it fails with TransactionClosed; in
\* both cases every byte of the Mapping and of the file, and the Mapping's
\* state, are unchanged, and so is every other Transaction.
C27_AbandonedTransaction ==
    [][last'.op = "Finalize" =>
        LET t == last'.tx
        IN  /\ memory' = memory
            /\ file' = file
            /\ UNCHANGED <<writable, locked, handles>>
            /\ txs'[t].snapshot = Nil
            /\ \A u \in TxIds \ {t} : txs'[u] = txs[u]
            /\ last'.buf = txs[t].snapshot
            /\ txs[t].snapshot # Nil => last'.err = "nil"
            /\ txs[t].snapshot = Nil => last'.err = "TransactionClosed"
      ]_vars

\* the finalizer discarded a snapshot that differed from the Mapping, which
\* still holds the bytes it was made with
C27_Witness ==
    /\ last.op = "Finalize" /\ last.err = "nil"
    /\ last.buf # Nil
    /\ memory # Nil /\ memory = file0
    /\ last.buf # SubSeq(memory, last.off + 1, last.off + Len(last.buf))
    /\ txs[last.tx].snapshot = Nil

\* C28 - Commit frame: a Commit (also the one Flush makes) changes no byte
\* of the Mapping outside [start, end); a Transaction.WriteAt at an offset
\* in [start, end) whose buffer reaches past end writes end - offset bytes,
\* returns io.EOF and leaves the snapshot end - start bytes long; and no
\* other operation of a Transaction changes a byte of the Mapping at all.
C28_CommitFrame ==
    [][last'.op \in TxOps =>
        LET t == last'.tx
            start == txs[t].offset
            end == txs[t].highOffset
        IN  /\ last'.op \in {"Commit", "Flush"} =>
                   \/ memory' = memory
                   \/ /\ memory # Nil /\ txs[t].snapshot # Nil
                      /\ Len(memory') = Len(memory)
                      /\ \A i \in 1..Len(memory) :
                             (i <= start \/ i > end) => memory'[i] = memory[i]
            /\ last'.op \notin {"Commit", "Flush"} => memory' = memory
            /\ txs[t].snapshot # Nil =>
                   \/ txs'[t].snapshot = Nil
                   \/ Len(txs'[t].snapshot) = end - start
            /\ (last'.op = "TxWriteAt" /\ txs[t].snapshot # Nil
                    /\ last'.off >= start /\ last'.off < end
                    /\ last'.off + Len(last'.buf) > end) =>
                   /\ last'.n = end - last'.off
                   /\ last'.err = "EOF"
                   /\ Drop(txs'[t].snapshot, last'.off - start)
                          = SubSeq(last'.buf, 1, last'.n)
      ]_vars

\* a two-byte WriteAt at the last byte of a Transaction over the first byte
\* of the Mapping: one byte went into the snapshot, none into the Mapping
C28_Witness ==
    /\ last.op = "TxWriteAt" /\ last.err = "EOF" /\ last.n = 1
    /\ last.buf = <<1, 1>> /\ last.off = 0
    /\ txs[last.tx].offset = 0 /\ txs[last.tx].highOffset = 1
    /\ txs[last.tx].snapshot = <<1>>
    /\ memory = Zeros(MapLen)

\* a step made on something other than Transaction t: on the Mapping or on
\* another Transaction
ByOther(t) == last'.tx # t

\* C29 - Whole-range overwrite on Commit: a successful Commit of a
\* Transaction over [start, end) makes every byte of the Mapping in
\* [start, end) equal to the snapshot's, whatever the Mapping held there.
\* The snapshot holds the Mapping's bytes at Begin except where the
\* Transaction's own WriteAt put others: Begin copies them, no operation on
\* the Mapping or on another Transaction changes them, and a WriteAt changes
\* only the bytes it writes.  So a byte changed in the Mapping after Begin,
\* directly or by another Commit, and not written by this Transaction goes
\* back to its value at Begin, and of two overlapping Transactions the one
\* that commits last determines the overlap.
C29_WholeRangeOverwrite ==
    [][\A t \in DOMAIN txs :
        LET start == txs[t].offset
            end == txs[t].highOffset
            snap == txs[t].snapshot
        IN  /\ (last'.op = "Commit" /\ last'.tx = t /\ last'.err = "nil") =>
                   /\ SubSeq(memory', start + 1, end) = snap
                   /\ \A i \in (start + 1)..end :
                          memory[i] # snap[i - start] =>
                              memory'[i] = snap[i - start]
                   /\ \A u \in DOMAIN txs \ {t} : txs'[u] = txs[u]
            /\ (last'.op = "Begin" /\ last'.tx = t /\ last'.err = "nil") =>
                   txs'[t].snapshot =
                       SubSeq(memory, txs'[t].offset + 1, txs'[t].highOffset)
            /\ (snap # Nil /\ ByOther(t)) => txs'[t] = txs[t]
            /\ (snap # Nil /\ last'.op = "TxWriteAt" /\ last'.tx = t) =>
                   \A i \in 1..Len(snap) :
                       txs'[t].snapshot[i] # snap[i] =>
                           /\ start + i - 1 >= last'.off
                           /\ start + i - 1 < last'.off + last'.n
      ]_vars

\* two Transactions over the whole Mapping: the second has committed other
\* bytes, the first still holds the bytes of its Begin, which its Commit
\* will put back
C29_Witness ==
    /\ last.op = "Commit" /\ last.tx = "t2" /\ last.err = "nil"
    /\ txs["t2"].offset = 0 /\ txs["t2"].highOffset = MapLen
    /\ txs["t1"].offset = 0 /\ txs["t1"].highOffset = MapLen
    /\ txs["t1"].snapshot = Zeros(MapLen)
    /\ memory = [i \in 1..MapLen |-> 1]

\* C30 - Snapshot stability: Begin copies the Mapping's bytes of [start, end)
\* into the snapshot; a ReadAt of the open Transaction at an offset in
\* [start, end) returns the snapshot's bytes from there on; a WriteAt of the
\* Transaction puts exactly the bytes it reports into the snapshot; and no
\* operation that changes the Mapping without being this Transaction's, a
\* direct WriteAt or the Commit of another Transaction, changes what any
\* ReadAt of this Transaction returns.
C30_SnapshotStability ==
    [][\A t \in DOMAIN txs :
        LET start == txs[t].offset
            end == txs[t].highOffset
            snap == txs[t].snapshot
        IN  /\ (last'.op = "Begin" /\ last'.tx = t /\ last'.err = "nil") =>
                   /\ txs'[t].offset = last'.off
                   /\ txs'[t].highOffset = last'.off + last'.len
                   /\ txs'[t].snapshot =
                          SubSeq(memory, last'.off + 1, last'.off + last'.len)
                   /\ memory' = memory
            /\ (snap # Nil /\ last'.op = "TxReadAt" /\ last'.tx = t
                    /\ last'.off >= start /\ last'.off < end) =>
                   /\ last'.n = Min(Len(last'.buf), end - last'.off)
                   /\ SubSeq(last'.buf, 1, last'.n) =
                          SubSeq(snap, last'.off - start + 1,
                                 last'.off - start + last'.n)
                   /\ last'.err = IF last'.n < Len(last'.buf)
                                   THEN "EOF" ELSE "nil"
                   /\ txs' = txs
            /\ (snap # Nil /\ last'.op = "TxWriteAt" /\ last'.tx = t
                    /\ last'.off >= start /\ last'.off < end) =>
                   txs'[t].snapshot =
                       [i \in 1..Len(snap) |->
                           IF /\ start + i - 1 >= last'.off
                              /\ start + i - 1 < last'.off + last'.n
                           THEN last'.buf[start + i - last'.off]
                           ELSE snap[i]]
            /\ (snap # Nil /\ ByOther(t) /\ memory' # memory) =>
                   \A k \in 0..MaxBuf, o \in Offsets :
                       TransactionReadAt(t, Zeros(k), o)'
                           = TransactionReadAt(t, Zeros(k), o)
      ]_vars

\* a direct WriteAt has changed both bytes of the Mapping under an open
\* Transaction, whose snapshot still holds the bytes of its Begin
C30_Witness ==
    /\ last.op = "WriteAt" /\ last.err = "nil" /\ last.n = MapLen
    /\ memory = [i \in 1..MapLen |-> 1]
    /\ txs["t1"].offset = 0 /\ txs["t1"].highOffset = MapLen
    /\ txs["t1"].snapshot = Zeros(MapLen)

C32_NoUseAfterRelease ==
    /\ ~view => memory = Nil
    /\ ~Crashed

\* C33 - No leak on failed construction: when New has returned an error, no
\* OS resource it acquired is still held: neither the duplicated file
\* handle, nor the file-mapping handle, nor a mapped region.
C33_NoLeakOnFailedNew ==
    (last.op = "New" /\ last.err # "nil") =>
        (~hFile /\ ~hMapping /\ ~view)

\* C34 - Executable request: for every mode, the Mapping New returned is
\* executable (the executable flag is set and execute protection was
\* requested from the OS for the region) if and only if the flags the caller
\* passed contain FlagExecutable.
C34_ExecutableRequest ==
    (last.op = "New" /\ last.err = "nil") =>
        (region.exec <=> "FlagExecutable" \in last.flags)

\* C35 - Error precedence: Mapping.WriteAt reports Closed on a closed
\* Mapping, else IllegalOperation on one that is not writable, else
\* InvalidOffset for an offset outside the Mapping; Begin reports Closed,
\* else IllegalOperation, else InvalidOffset, else InvalidLength for a
\* length of zero; ReadAt, WriteAt, Commit and Rollback of a closed
\* Transaction report TransactionClosed whatever the offset, and Commit
\* does so also when the parent Mapping is closed.
C35_ErrorPrecedence ==
    [][LET r == last'
           badOffset == r.off < 0 \/ r.off >= Len(memory)
       IN  /\ r.op = "WriteAt" =>
                  /\ memory = Nil => r.err = "Closed"
                  /\ (memory # Nil /\ ~writable) => r.err = "IllegalOperation"
                  /\ (memory # Nil /\ writable /\ badOffset) =>
                         r.err = "InvalidOffset"
           /\ r.op = "Begin" =>
                  /\ memory = Nil => r.err = "Closed"
                  /\ (memory # Nil /\ ~writable) => r.err = "IllegalOperation"
                  /\ (memory # Nil /\ writable /\ badOffset) =>
                         r.err = "InvalidOffset"
                  /\ (memory # Nil /\ writable /\ ~badOffset /\ r.len = 0) =>
                         r.err = "InvalidLength"
           /\ (r.op \in {"TxReadAt", "TxWriteAt", "Commit", "Rollback"}
                   /\ txs[r.tx].snapshot = Nil) =>
                  r.err = "TransactionClosed"
      ]_vars

\* a Begin with an offset outside the Mapping and a length of zero on a
\* Mapping that is open but not writable: three preconditions fail, and
\* IllegalOperation is reported
C35_Witness ==
    /\ last.op = "Begin" /\ last.err = "IllegalOperation"
    /\ memory # Nil /\ ~writable
    /\ last.off < 0 /\ last.len = 0

\* C36 - Multi-operand calls are not all-or-nothing: when a Set, Inc or Dec
\* at offset o fails at operand i, it stopped at the cursor
\* o + w_0 + ... + w_(i-1); the slots of the operands before i hold what the
\* call put there (v_j for Set, the old value plus or minus v_j modulo the
\* width for Inc and Dec), and every byte of the store at or beyond the end
\* of the slot of operand i, and every byte before o, is unchanged.
C36_NotAllOrNothing ==
    [][(last'.op \in {"Set", "Inc", "Dec"} /\ last'.err # "nil")
        => LET o == last'.off
               ops == last'.ops
               i == last'.index + 1
               c(j) == o + WidthSum(ops, j - 1)
               m(j) == ByteBase ^ ops[j].w
               x(j) == Slot(memory, c(j), ops[j].w)
           IN  /\ i \in 1..Len(ops)
               /\ last'.at = c(i)
               /\ Len(memory') = Len(memory)
               /\ \A j \in 1..(i - 1) :
                      Slot(memory', c(j), ops[j].w) =
                          IF last'.op = "Set" THEN ops[j].v
                          ELSE IF last'.op = "Inc"
                          THEN (x(j) + ops[j].v) % m(j)
                          ELSE (x(j) - ops[j].v) % m(j)
               /\ \A b \in 1..Len(memory) :
                      (b > c(i) + ops[i].w \/ b <= o) =>
                          memory'[b] = memory[b]
      ]_vars

\* a Set of a one-byte value followed by an operand of unsupported type:
\* the call failed at the second operand and the first one is in the store
C36_Witness ==
    /\ last.op = "Set" /\ last.err = "UnsupportedType"
    /\ last.index = 1 /\ last.off = 0
    /\ last.ops = <<[w |-> 1, v |-> 1], Unsupported>>
    /\ file0 = Zeros(SegLen)
    /\ memory = <<1>> \o Zeros(SegLen - 1)
    /\ file = memory

\* C37 - Inc/Dec inverse: for a slot of w bytes at offset o that lies in the
\* store and a delta d of that width, Inc(o, d) followed by Dec(o, d), and
\* Dec(o, d) followed by Inc(o, d), leave the whole store as it was, whatever
\* value x the slot held; and Inc(o, d) followed by Inc(o, b) leaves the
\* store as Inc(o, (d + b) mod 2^(8w)) does.
C37_IncDecInverse ==
    [][(last'.op \in {"Inc", "Dec"}
            /\ Len(last'.ops) = 1
            /\ last'.ops[1].w \in Widths
            /\ last'.off >= 0
            /\ last'.off + last'.ops[1].w <= Len(memory))
        => LET o == last'.off
               w == last'.ops[1].w
               d == last'.ops[1].v
               m == ByteBase ^ w
               run(kind, mem, v) == SegRun(kind, mem, o, <<[w |-> w, v |-> v]>>, 1)
               after(kind, mem, v) == run(kind, mem, v).mem
               back == IF last'.op = "Inc" THEN "Dec" ELSE "Inc"
           IN  /\ last'.err = "nil"
               \* the call that was made, and its opposite after it
               /\ run(back, memory', d).err = "nil"
               /\ after(back, memory', d) = memory
               \* the same whatever the slot holds: every value x with the
               \* deltas of SegValues, and the values of SegValues with
               \* every delta
               /\ \A x \in (IF d \in SegValues(w) THEN 0..(m - 1)
                                                  ELSE SegValues(w)) :
                      \A mem0 \in {after("Set", memory, x)} :
                      \A inc \in {after("Inc", mem0, d)} :
                      \A dec \in {after("Dec", mem0, d)} :
                          /\ Slot(mem0, o, w) = x
                          /\ after("Dec", inc, d) = mem0
                          /\ after("Inc", dec, d) = mem0
                          /\ \A b \in SegValues(w) :
                                 after("Inc", inc, b)
                                     = after("Inc", mem0, (d + b) % m)
      ]_vars

\* a Dec by one of a one-byte slot holding zero wrapped to the greatest value
\* of the width, and an Inc by one takes the store back to what it was
C37_Witness ==
    /\ last.op = "Dec" /\ last.err = "nil" /\ last.off = 0
    /\ last.ops = <<[w |-> 1, v |-> 1]>>
    /\ file0 = Zeros(SegLen)
    /\ Slot(memory, 0, 1) = ByteBase - 1
    /\ SegRun("Inc", memory, 0, last.ops, 1).mem = file0

\* the value goroutine g read from the slot, from what it is about to write
\* or has written
IncRead0(g) ==
    (Uint(threads[g].buf) - threads[g].v) % (ByteBase ^ threads[g].w)

\* C38 - Inc is not atomic: when two goroutines have run Inc(o, a) and
\* Inc(o, b) on the same slot at the same time, every byte of the slot is
\* the one that one of them wrote last; and when both read the value x the
\* slot held before either wrote (both reads before both writes), each
\* computed its sum from x, so the slot holds byte for byte x + a or x + b,
\* and in a one-byte slot the value x + a or x + b: one of the two
\* increments is lost.
C38_IncNotAtomic ==
    \A g, h \in DOMAIN threads :
        (g # h /\ threads[g].pc = "done" /\ threads[h].pc = "done"
             /\ threads[g].off = threads[h].off
             /\ threads[g].w = threads[h].w)
        => LET o == threads[g].off
               w == threads[g].w
               m == ByteBase ^ w
               x == Slot(file0, o, w)
               a == threads[g].v
               b == threads[h].v
           IN  /\ \A i \in 1..w :
                      memory[o + i] \in {threads[g].buf[i], threads[h].buf[i]}
               /\ (IncRead0(g) = x /\ IncRead0(h) = x) =>
                      /\ threads[g].buf = PutUint((x + a) % m, w)
                      /\ threads[h].buf = PutUint((x + b) % m, w)
                      /\ \A i \in 1..w :
                             memory[o + i] \in {PutUint((x + a) % m, w)[i],
                                                PutUint((x + b) % m, w)[i]}
                      /\ w = 1 => Slot(memory, o, w) \in {(x + a) % m,
                                                          (x + b) % m}
               /\ \A i \in 1..Len(memory) :
                      (i <= o \/ i > o + w) => memory[i] = file0[i]

\* both goroutines have run Inc(0, uint16(1)) on a slot holding zero, both
\* read zero, and the slot holds one and not two
C38_Witness ==
    /\ \A g \in DOMAIN threads :
           /\ threads[g].pc = "done" /\ threads[g].op = "Inc"
           /\ threads[g].off = 0 /\ threads[g].w = 2 /\ threads[g].v = 1
           /\ IncRead0(g) = 0
    /\ file0 = Zeros(SegLen)
    /\ Slot(memory, 0, 2) = 1

\* goroutine g takes the step
StepOf(g) == threads'[g] # threads[g]

\* C39 - Unprotected lifecycle flags: a call examines the open/closed state
\* only at its closed check, which it passes exactly when the Mapping has
\* not been reset; nothing holds the state in place afterwards.  So a Close
\* that has passed the check passes the region to the OS unmap also when
\* another goroutine's Close has unmapped it already, and a ReadAt, WriteAt
\* or Commit that has passed the check copies from or to the region also
\* when a Close has unmapped it meanwhile, which is a fault.
C39_UnprotectedLifecycle ==
    [][\A g \in DOMAIN threads :
        LET t == threads[g]
            u == threads'[g]
        IN  StepOf(g) =>
            \* the closed check, the only look at the state
            /\ (t.pc = "idle" /\ u.op \in {"Close", "ReadAt"}) =>
                   /\ memory = Nil => (u.pc = "done" /\ u.err = "Closed")
                   /\ memory # Nil => u.pc \in {"sync", "copy"}
            \* the unmap of a Close that passed the check
            /\ (t.op = "Close" /\ t.pc = "release" /\ t.k = 0
                    /\ memory # Nil) =>
                   /\ u.hit
                   /\ ~view'
                   /\ ~view => u.err \in {"nil", ReleaseCalls[1]}
            \* the copy of an access that passed the check
            /\ (t.op \in AccessOps /\ t.pc = "copy" /\ memory # Nil
                    /\ ~view /\ ~(t.op = "Commit" /\ txs[RaceTx].snapshot = Nil))
                   => (u.hit /\ u.err = "fault" /\ Crashed')
      ]_vars

\* two goroutines have both passed the closed check of Close and both passed
\* the region to the OS unmap, and a third, which had passed the closed
\* check of ReadAt, read the region after it was unmapped
C39_Witness ==
    /\ threads["g1"].op = "Close" /\ threads["g1"].hit
    /\ threads["g2"].op = "Close" /\ threads["g2"].hit
    /\ threads["g3"].op = "ReadAt" /\ threads["g3"].hit
    /\ threads["g3"].err = "fault"
    /\ ~view /\ memory # Nil
====
